---- MODULE Spec2Model ----
(***************************************************************************)
(* Retrieval, context assembly, conversation persistence and ingestion of  *)
(* the Mini-RAG API (src/app), as a state machine over the database tables *)
(* (collections, documents, chunks, sessions, chat_messages) and the       *)
(* request handlers that read and write them.                              *)
(***************************************************************************)
EXTENDS Integers, Sequences, FiniteSets, TLC

(***************************************************************************)
(* Bounds of the model.                                                    *)
(***************************************************************************)
\* longest list of expanded chunk texts handed to the context assembler
MaxContextChunks == 4
\* largest configured GROQ_MAX_CONTEXT_CHARS explored
MaxContextChars == 16
\* documents ever created (uuid4 draws for documents.id)
MaxDocs == 2
\* chunks of one document
MaxChunks == 3
\* files of one upload request
MaxFiles == 2
\* collections ever created
MaxCollections == 1
\* largest k of a search (schemas.py:61-66 allows 1..20)
MaxK == 2
\* characters of a text chunked
MaxTextLen == 5
\* largest chunk_size and chunk_overlap tried
MaxChunkSize == 3
\* characters of a text normalised
MaxNormLen == 4

\* hours the clock runs, and tokens issued, in one run
MaxTime == 3
MaxTokens == 2

\* messages stored in the session whose history is loaded, and the largest
\* MAX_HISTORY_LOAD and MAX_HISTORY_MESSAGES tried
MaxMessages == 3
MaxHistory == 2

\* the documents the FAISS index holds at most
MaxStored == 5

(***************************************************************************)
(* Values.                                                                 *)
(***************************************************************************)
\* chunk texts (non blank: chunk_text drops blank chunks), of lengths 1, 2, 3
Texts == {"a", "bb", "ccc"}

\* ask.py:122, the separator between context parts
sep == "\n---\n"

\* ask.py:133, the truncation marker (same length as the source's: 51)
TRUNCATION_MARKER == "\n\n[... contexto truncado por limite del modelo ...]"

(***************************************************************************)
(* Sequence helpers.                                                       *)
(***************************************************************************)
Range(s) == {s[i] : i \in 1..Len(s)}

Min(a, b) == IF a < b THEN a ELSE b

\* all sequences over S of length lo..hi
SeqsOf(S, lo, hi) == UNION {[1..n -> S] : n \in lo..hi}

(***************************************************************************)
(* Context assembly, ask.py:121-133.                                       *)
(***************************************************************************)
\* list(dict.fromkeys(xs)): keeps the first occurrence of every key, in order
RECURSIVE DictFromKeysFrom(_, _, _)
DictFromKeysFrom(xs, i, acc) ==
    IF i > Len(xs) THEN acc
    ELSE DictFromKeysFrom(xs, i + 1,
            IF xs[i] \in Range(acc) THEN acc ELSE Append(acc, xs[i]))

\* mutant: the flattened list is used without deduplication
DictFromKeys_keepall(xs) == xs

DictFromKeys(xs) == DictFromKeysFrom(xs, 1, <<>>)

\* sep.join(parts)
RECURSIVE JoinFrom(_, _, _)
JoinFrom(parts, i, acc) ==
    IF i > Len(parts) THEN acc
    ELSE JoinFrom(parts, i + 1, (IF i = 1 THEN acc ELSE acc \o sep) \o parts[i])

Join(parts) == JoinFrom(parts, 1, "")

\* ask.py:126, add_len of part c given the parts kept so far
AddLen(parts, c) == (IF parts # <<>> THEN Len(sep) ELSE 0) + Len(c)

\* ask.py:127, the test that ends the loop
StopsAt(parts, total_len, c, max_chars) ==
    total_len + AddLen(parts, c) > max_chars /\ parts # <<>>

\* ask.py:123-130, the loop over unique_chunks from position i
RECURSIVE KeepParts(_, _, _, _, _)
KeepParts(unique, i, parts, total_len, max_chars) ==
    IF i > Len(unique) THEN parts
    ELSE IF StopsAt(parts, total_len, unique[i], max_chars) THEN parts
    ELSE KeepParts(unique, i + 1, Append(parts, unique[i]),
                   total_len + AddLen(parts, unique[i]), max_chars)

\* mutant: >= for >, the marker is appended also when nothing was dropped
ContextForLlm_always(unique, parts) ==
    IF Len(unique) >= Len(parts) THEN Join(parts) \o TRUNCATION_MARKER
    ELSE Join(parts)

\* ask.py:131-133
ContextForLlm(unique, parts) ==
    IF Len(unique) > Len(parts) THEN Join(parts) \o TRUNCATION_MARKER
    ELSE Join(parts)

\* collections.py:446, the truncation marker of the collection route
COLLECTION_TRUNCATION_MARKER == "\n[... contexto truncado ...]"

\* collections.py:442, "\n\n".join(context_texts)
RECURSIVE JoinParagraphs(_, _, _)
JoinParagraphs(parts, i, acc) ==
    IF i > Len(parts) THEN acc
    ELSE JoinParagraphs(parts, i + 1, (IF i = 1 THEN acc ELSE acc \o "\n\n") \o parts[i])

\* collections.py:441-447: context_str as sent to the model and context_texts
\* as returned in context_used
CollectionContext(all_chunks, max_chars) ==
    LET context_str == JoinParagraphs(all_chunks, 1, "")
        cut == SubSeq(context_str, 1, max_chars) \o COLLECTION_TRUNCATION_MARKER
    IN  IF Len(context_str) > max_chars
        THEN [context_str |-> cut, context_texts |-> <<cut>>]
        ELSE [context_str |-> context_str, context_texts |-> all_chunks]

VARIABLES
    MAX_CONTEXT_CHARS,    \* ask.py:22, read from the environment at import
    asm_pc,               \* position of the assembly run: "expand" | "assembled"
    all_context_chunks,   \* ask.py:91
    unique_chunks,        \* ask.py:121
    context_parts,        \* ask.py:123
    context_for_llm       \* ask.py:131

asm_vars == <<MAX_CONTEXT_CHARS, asm_pc, all_context_chunks, unique_chunks,
              context_parts, context_for_llm>>

VARIABLES
    \* committed rows of the database
    collections,          \* ids of the rows of table collections
    documents,            \* rows of table documents: [id, collection_id]
    chunks,               \* rows of table chunks: [document_id, chunk_index, text]
    sessions,             \* rows of table sessions: [id, collection_id]
    chat_messages,        \* rows of table chat_messages
    \* primary keys drawn so far (uuid4 never repeats a key)
    last_collection,
    last_document

db_vars == <<collections, documents, chunks, sessions, chat_messages,
             last_collection, last_document>>

VARIABLES
    \* one upload_files request per uploader
    up_pc,                \* "idle" | "file" | "flushed" | "done"
    up_collection,        \* collection the request ingests into
    up_n,                 \* len(files)
    up_i,                 \* position of the loop over files (1-based)
    up_tx,                \* rows added and flushed, not yet committed
    uploaded_files,       \* upload.py:63 (positions of the files)
    failed_files,         \* upload.py:64 (positions of the files)
    up_response           \* what the handler returned

up_vars == <<up_pc, up_collection, up_n, up_i, up_tx, uploaded_files,
             failed_files, up_response>>

VARIABLES
    probe                 \* the last call of a retrieval function and what it returned

VARIABLES
    \* the question-answering requests
    ask,                  \* the request, the handler's locals and its response
    clock                 \* datetime.now() of the last row inserted

ask_vars == <<ask, clock>>

VARIABLES
    \* access to the collections
    collection_access,    \* columns is_public and code of the rows of collections
    tokens,               \* the tokens create_collection_access_token has signed
    utcnow                \* datetime.utcnow(), in hours

acc_vars == <<collection_access, tokens, utcnow>>

VARIABLES
    vectorstore           \* vectorstore.py:15, the global _vectorstore

vars == <<asm_vars, db_vars, up_vars, probe, ask_vars, acc_vars, vectorstore>>

\* _vectorstore is None
NoStore == [initialized |-> FALSE, docs |-> <<>>]

\* vectorstore.py:15
VsInit == vectorstore = NoStore

(***************************************************************************)
(* Context assembly run, ask.py:90-133.                                    *)
(***************************************************************************)
AsmInit ==
    /\ MAX_CONTEXT_CHARS \in 0..MaxContextChars
    /\ asm_pc = "expand"
    /\ all_context_chunks = <<>>
    /\ unique_chunks = <<>>
    /\ context_parts = <<>>
    /\ context_for_llm = ""

\* ask.py:93-103, one iteration of the loop over the seeds: the seed's
\* expansion (any list of texts) is appended to all_context_chunks
ExtendContext ==
    /\ asm_pc = "expand"
    /\ \E context_chunks \in SeqsOf(Texts, 1, MaxContextChunks) :
          /\ Len(all_context_chunks) + Len(context_chunks) <= MaxContextChunks
          /\ all_context_chunks' = all_context_chunks \o context_chunks
    /\ UNCHANGED <<MAX_CONTEXT_CHARS, asm_pc, unique_chunks, context_parts,
                   context_for_llm>>
    /\ UNCHANGED <<db_vars, up_vars, probe, ask_vars, acc_vars, vectorstore>>

\* ask.py:121-133
AssembleContext ==
    /\ asm_pc = "expand"
    /\ unique_chunks' = DictFromKeys(all_context_chunks)
    /\ context_parts' = KeepParts(unique_chunks', 1, <<>>, 0, MAX_CONTEXT_CHARS)
    /\ context_for_llm' = ContextForLlm(unique_chunks', context_parts')
    /\ asm_pc' = "assembled"
    /\ UNCHANGED <<MAX_CONTEXT_CHARS, all_context_chunks>>
    /\ UNCHANGED <<db_vars, up_vars, probe, ask_vars, acc_vars, vectorstore>>

AsmNext == ExtendContext \/ AssembleContext

(***************************************************************************)
(* The database, db/models.py, and its transactions, db/database.py.       *)
(***************************************************************************)
\* documents.collection_id of a document uploaded outside any collection
NoCollection == 0

NoTx == [document_id |-> 0, collection_id |-> NoCollection, chunk_texts |-> <<>>]

NoResponse == [status |-> 0, files_uploaded |-> <<>>, failed_files |-> <<>>,
               documents_indexed |-> 0]

Uploaders == {"u1"}

DbInit ==
    /\ collections = {}
    /\ documents = {}
    /\ chunks = {}
    /\ sessions = {}
    /\ chat_messages = {}
    /\ last_collection = 0
    /\ last_document = 0

DocumentIds == {d.id : d \in documents}

ChunksOf(document_id) == {c \in chunks : c.document_id = document_id}

DocumentsIn(collection_id) ==
    {d.id : d \in {x \in documents : x.collection_id = collection_id}}

\* the session of a collection (collections.py:121)
CollectionSession(collection_id) ==
    [id |-> [kind |-> "collection", n |-> collection_id, of |-> ""],
     collection_id |-> collection_id]

\* mutant: the foreign key of chunks does not cascade
CascadeChunks_none(doc_ids) == chunks

\* ON DELETE CASCADE of chunks.document_id (models.py:23)
CascadeChunks(doc_ids) == {c \in chunks : c.document_id \notin doc_ids}

\* ON DELETE CASCADE of chat_messages.session_id (models.py:44)
CascadeMessages(session_ids) ==
    {m \in chat_messages : m.session_id \notin session_ids}

(***************************************************************************)
(* upload_files, routes/upload.py:34-189.                                  *)
(***************************************************************************)
\* the texts of the chunks of a file, in order
ChunkTextCycle == <<"a", "bb", "ccc">>

\* the texts a file can split into (chunk_text drops blank chunks, so a file
\* that gets as far as the database has at least one)
FileChunks == {[i \in 1..n |-> ChunkTextCycle[((i - 1) % 3) + 1]] : n \in 1..MaxChunks}

\* a request may name a collection to ingest into, or none as in upload.py
UploadTargets == {NoCollection} \cup collections

\* mutant: chunk_index counted from 1
ChunkModels_from1(document_id, chunk_texts) ==
    {[document_id |-> document_id, chunk_index |-> i, text |-> chunk_texts[i]] :
        i \in 1..Len(chunk_texts)}

\* upload.py:129-149, the chunk rows of a document: enumerate(chunk_texts)
ChunkModels(document_id, chunk_texts) ==
    {[document_id |-> document_id, chunk_index |-> i - 1, text |-> chunk_texts[i]] :
        i \in 1..Len(chunk_texts)}

UpInit ==
    /\ up_pc = [u \in Uploaders |-> "idle"]
    /\ up_collection = [u \in Uploaders |-> NoCollection]
    /\ up_n = [u \in Uploaders |-> 0]
    /\ up_i = [u \in Uploaders |-> 0]
    /\ up_tx = [u \in Uploaders |-> NoTx]
    /\ uploaded_files = [u \in Uploaders |-> <<>>]
    /\ failed_files = [u \in Uploaders |-> <<>>]
    /\ up_response = [u \in Uploaders |-> NoResponse]

\* upload.py:60-64, a request arrives with n files
UploadBegin(u) ==
    /\ up_pc[u] \in {"idle", "done"}
    /\ \E n \in 0..MaxFiles, c \in UploadTargets :
          /\ up_n' = [up_n EXCEPT ![u] = n]
          /\ up_collection' = [up_collection EXCEPT ![u] = c]
          /\ IF n = 0
             THEN /\ up_pc' = [up_pc EXCEPT ![u] = "done"]
                  /\ up_response' = [up_response EXCEPT ![u] =
                                        [NoResponse EXCEPT !.status = 400]]
                  /\ up_i' = [up_i EXCEPT ![u] = 0]
             ELSE /\ up_pc' = [up_pc EXCEPT ![u] = "file"]
                  /\ up_i' = [up_i EXCEPT ![u] = 1]
                  /\ up_response' = [up_response EXCEPT ![u] = NoResponse]
    /\ UNCHANGED <<up_tx, uploaded_files, failed_files>>
    /\ UNCHANGED <<asm_vars, db_vars, probe, ask_vars, acc_vars, vectorstore>>

\* the current file ends in failed_files and the loop goes on (upload.py:67-94
\* without a transaction, upload.py:155-174 after db.rollback())
FileFailed(u) ==
    /\ failed_files' = [failed_files EXCEPT ![u] = Append(@, up_i[u])]
    /\ up_i' = [up_i EXCEPT ![u] = @ + 1]
    /\ up_tx' = [up_tx EXCEPT ![u] = NoTx]
    /\ up_pc' = [up_pc EXCEPT ![u] = "file"]

\* upload.py:67-94 and 155-174 before db.add: no name, unsupported format,
\* empty text, no chunks, or an exception of process_document,
\* chunk_text or get_embeddings
UploadRejectFile(u) ==
    /\ up_pc[u] = "file"
    /\ up_i[u] <= up_n[u]
    /\ FileFailed(u)
    /\ UNCHANGED <<up_collection, up_n, uploaded_files, up_response>>
    /\ UNCHANGED <<asm_vars, db_vars, probe, ask_vars, acc_vars, vectorstore>>

\* mutant: db.flush() makes the document row visible to everybody
FlushDocument_autocommit(u, document_id) ==
    /\ documents' = documents \cup
          {[id |-> document_id, collection_id |-> up_collection[u]]}
    /\ UNCHANGED <<collections, chunks, sessions, chat_messages, last_collection>>

\* upload.py:122-123, db.add(document); db.flush(): the INSERT runs inside the
\* request's transaction and no other session sees the row
FlushDocument(u, document_id) ==
    UNCHANGED <<collections, documents, chunks, sessions, chat_messages,
                last_collection>>

\* upload.py:111-123, the file has chunks and embeddings; its document is
\* added and flushed.  The INSERT fails when the collection is gone.
UploadFlushFile(u) ==
    /\ up_pc[u] = "file"
    /\ up_i[u] <= up_n[u]
    /\ last_document < MaxDocs
    /\ \E chunk_texts \in FileChunks :
          LET document_id == last_document + 1
          IN  /\ last_document' = document_id
              /\ IF up_collection[u] \in UploadTargets
                 THEN /\ up_tx' = [up_tx EXCEPT ![u] =
                            [document_id |-> document_id,
                             collection_id |-> up_collection[u],
                             chunk_texts |-> chunk_texts]]
                      /\ up_pc' = [up_pc EXCEPT ![u] = "flushed"]
                      /\ FlushDocument(u, document_id)
                      /\ UNCHANGED <<up_i, failed_files>>
                 ELSE /\ FileFailed(u)
                      /\ UNCHANGED <<collections, documents, chunks, sessions,
                                     chat_messages, last_collection>>
    /\ UNCHANGED <<up_collection, up_n, uploaded_files, up_response>>
    /\ UNCHANGED <<asm_vars, probe, ask_vars, acc_vars, vectorstore>>

\* upload.py:155-174, db.add_all or db.commit() raised: db.rollback()
UploadFileError(u) ==
    /\ up_pc[u] = "flushed"
    /\ FileFailed(u)
    /\ UNCHANGED <<up_collection, up_n, uploaded_files, up_response>>
    /\ UNCHANGED <<asm_vars, db_vars, probe, ask_vars, acc_vars, vectorstore>>

\* mutant: a file whose commit went through is not reported
CommitOutcome_unreported(u) ==
    /\ uploaded_files' = uploaded_files
    /\ UNCHANGED failed_files

\* upload.py:153
CommitOutcome(u) ==
    /\ uploaded_files' = [uploaded_files EXCEPT ![u] = Append(@, up_i[u])]
    /\ UNCHANGED failed_files

\* mutant: the rows of the request replace the stored rows
CommittedChunks_replace(u) == ChunkModels(up_tx[u].document_id, up_tx[u].chunk_texts)

\* upload.py:151-152, db.add_all(chunks_models); db.commit(): the rows are
\* inserted next to the stored ones
CommittedChunks(u) ==
    chunks \cup ChunkModels(up_tx[u].document_id, up_tx[u].chunk_texts)

\* upload.py:129-153, db.add_all(chunks_models); db.commit()
UploadCommitFile(u) ==
    /\ up_pc[u] = "flushed"
    /\ documents' = documents \cup
          {[id |-> up_tx[u].document_id, collection_id |-> up_tx[u].collection_id]}
    /\ chunks' = CommittedChunks(u)
    /\ CommitOutcome(u)
    /\ up_i' = [up_i EXCEPT ![u] = @ + 1]
    /\ up_tx' = [up_tx EXCEPT ![u] = NoTx]
    /\ up_pc' = [up_pc EXCEPT ![u] = "file"]
    /\ UNCHANGED <<up_collection, up_n, up_response>>
    /\ UNCHANGED <<collections, sessions, chat_messages, last_collection,
                   last_document>>
    /\ UNCHANGED <<asm_vars, probe, ask_vars, acc_vars, vectorstore>>

\* upload.py:176-189
UploadRespond(u) ==
    /\ up_pc[u] = "file"
    /\ up_i[u] > up_n[u]
    /\ up_response' = [up_response EXCEPT ![u] =
          IF uploaded_files[u] = <<>>
          THEN [status |-> 400, files_uploaded |-> <<>>,
                failed_files |-> failed_files[u], documents_indexed |-> 0]
          ELSE [status |-> 200, files_uploaded |-> uploaded_files[u],
                failed_files |-> failed_files[u],
                documents_indexed |-> Len(uploaded_files[u])]]
    /\ up_pc' = [up_pc EXCEPT ![u] = "done"]
    /\ up_i' = [up_i EXCEPT ![u] = 0]
    /\ uploaded_files' = [uploaded_files EXCEPT ![u] = <<>>]
    /\ failed_files' = [failed_files EXCEPT ![u] = <<>>]
    /\ UNCHANGED <<up_collection, up_n, up_tx>>
    /\ UNCHANGED <<asm_vars, db_vars, probe, ask_vars, acc_vars, vectorstore>>

\* database.py:29-38, the request is torn down before it returns (the client
\* went away, the worker stopped): the open transaction is rolled back
UploadAbort(u) ==
    /\ up_pc[u] \in {"file", "flushed"}
    /\ up_tx' = [up_tx EXCEPT ![u] = NoTx]
    /\ up_pc' = [up_pc EXCEPT ![u] = "idle"]
    /\ up_collection' = [up_collection EXCEPT ![u] = NoCollection]
    /\ up_n' = [up_n EXCEPT ![u] = 0]
    /\ up_i' = [up_i EXCEPT ![u] = 0]
    /\ uploaded_files' = [uploaded_files EXCEPT ![u] = <<>>]
    /\ failed_files' = [failed_files EXCEPT ![u] = <<>>]
    /\ UNCHANGED up_response
    /\ UNCHANGED <<asm_vars, db_vars, probe, ask_vars, acc_vars, vectorstore>>

(***************************************************************************)
(* Collections, routes/collections.py.                                     *)
(***************************************************************************)
\* no collection, no token issued
AccInit ==
    /\ collection_access = <<>>
    /\ tokens = {}
    /\ utcnow = 0

\* the access codes a client may type
Codes == {"c1", "c2"}

\* code_hash.py:5-9: the salted hash of a code, which only that code matches
hash_code(plain) == [bcrypt |-> plain]

\* models.py: column code is NULL
NoHash == [bcrypt |-> ""]

\* code_hash.py:12-28
verify_code(plain, stored_hash) ==
    IF stored_hash = NoHash THEN FALSE ELSE stored_hash = hash_code(plain)

\* schemas.py:76-87: the bodies create_collection accepts; a private collection
\* has a code that is not blank
CollectionCreate ==
    {[is_public |-> TRUE, code |-> ""]}
        \cup {[is_public |-> FALSE, code |-> c] : c \in Codes}

\* collections.py:111-117: the row's columns is_public and code
CollectionRows(id, collection) ==
    [c \in collections \cup {id} |->
        IF c = id
        THEN [is_public |-> collection.is_public,
              code |-> IF collection.code # "" THEN hash_code(collection.code)
                       ELSE NoHash]
        ELSE collection_access[c]]

\* the stores with collections StoreCollections, all of them public
StoreAccInit ==
    /\ collection_access = [c \in {1, 2} |-> [is_public |-> TRUE, code |-> NoHash]]
    /\ tokens = {}
    /\ utcnow = 0

\* mutant: the collection is committed without a session
CreatedSessions_none(collection_id) == sessions

\* collections.py:121-122, the session of the new collection
CreatedSessions(collection_id) == sessions \cup {CollectionSession(collection_id)}

\* collections.py:110-122, the collection and its session in one commit
create_collection(collection) ==
    /\ last_collection < MaxCollections
    /\ last_collection' = last_collection + 1
    /\ collections' = collections \cup {last_collection'}
    /\ sessions' = CreatedSessions(last_collection')
    /\ collection_access' = CollectionRows(last_collection', collection)
    /\ UNCHANGED <<documents, chunks, chat_messages, last_document>>
    /\ UNCHANGED <<asm_vars, up_vars, probe, ask_vars, tokens, utcnow, vectorstore>>

\* a row of collections is referenced by a document some open transaction
\* inserted, or its session by a message some open transaction inserted:
\* DELETE waits for that transaction
CollectionLocked(collection_id) ==
    \/ \E u \in Uploaders :
          up_pc[u] = "flushed" /\ up_tx[u].collection_id = collection_id
    \/ \E a \in DOMAIN ask :
          ask[a].pc = "commit" /\ ask[a].session_id = CollectionSession(collection_id).id

\* the documents left when a collection is deleted: documents.collection_id
\* references collections.id ON DELETE CASCADE
CascadeDocuments(collection_id) ==
    {d \in documents : d.collection_id # collection_id}

\* the sessions left when a collection is deleted: sessions.collection_id
\* references collections.id ON DELETE CASCADE
CascadeSessions(collection_id) ==
    {s \in sessions : s.collection_id # collection_id}

\* collections.py:171-187, ON DELETE CASCADE to documents, chunks, session and
\* messages
delete_collection(collection_id) ==
    /\ collection_id \in collections
    /\ ~CollectionLocked(collection_id)
    /\ collections' = collections \ {collection_id}
    /\ documents' = CascadeDocuments(collection_id)
    /\ chunks' = CascadeChunks(DocumentsIn(collection_id))
    /\ sessions' = CascadeSessions(collection_id)
    /\ chat_messages' = CascadeMessages(
          {s.id : s \in {x \in sessions : x.collection_id = collection_id}})
    /\ collection_access' = [c \in collections' |-> collection_access[c]]
    /\ UNCHANGED <<last_collection, last_document>>
    /\ UNCHANGED <<asm_vars, up_vars, probe, ask_vars, tokens, utcnow, vectorstore>>

\* the payloads of delete_collection_documents: lists of at least one id
\* (schemas.py:109-113), here one id or two, the same one or different ones
DocumentIdLists == SeqsOf(1..MaxDocs, 1, 2)

\* collections.py:269-275: db.get returns the document from the identity map
\* of the session also once it is marked as deleted, the flush comes with the
\* commit; so an id sent twice is appended twice
DeletedIds(collection_id, document_ids) ==
    SelectSeq(document_ids, LAMBDA doc_id : doc_id \in DocumentsIn(collection_id))

\* collections.py:279-282
DeleteDocumentsResponse(collection_id, document_ids) ==
    [deleted_count |-> Len(DeletedIds(collection_id, document_ids)),
     deleted_ids |-> DeletedIds(collection_id, document_ids)]

\* collections.py:254-282
delete_collection_documents(collection_id, document_ids) ==
    /\ collection_id \in collections
    /\ LET deleted_ids == Range(DeletedIds(collection_id, document_ids))
       IN  /\ documents' = {d \in documents : d.id \notin deleted_ids}
           /\ chunks' = CascadeChunks(deleted_ids)
    /\ UNCHANGED <<collections, sessions, chat_messages, last_collection,
                   last_document>>
    /\ UNCHANGED <<asm_vars, up_vars, probe, ask_vars, acc_vars, vectorstore>>

IngestNext ==
    \/ \E u \in Uploaders :
          \/ UploadBegin(u)
          \/ UploadRejectFile(u)
          \/ UploadFlushFile(u)
          \/ UploadFileError(u)
          \/ UploadCommitFile(u)
          \/ UploadRespond(u)
          \/ UploadAbort(u)
    \/ \E collection \in {c \in CollectionCreate : c.is_public} :
          create_collection(collection)
    \/ \E c \in 1..MaxCollections : delete_collection(c)
    \/ \E c \in 1..MaxCollections, ids \in DocumentIdLists :
          delete_collection_documents(c, ids)

(***************************************************************************)
(* The requests of question answering and their responses.                 *)
(***************************************************************************)
Askers == {"a1", "a2"}

\* request.session_id absent
NoSession == [kind |-> "none", n |-> 0, of |-> ""]

\* ask.py:61, str(uuid.uuid4()): an id no other request has
Uuid4(a) == [kind |-> "uuid4", n |-> 0, of |-> a]

\* the session ids a client sends: one of its own making, or one a response
\* gave it
ClientSessionIds ==
    {[kind |-> "client", n |-> 1, of |-> ""]}
        \cup {x.id : x \in {x \in sessions : x.collection_id = NoCollection}}

\* what the model answers (groq_client.py:16-68): any text
Answers == {"ok"}

NoAsk == [pc |-> "idle", route |-> "none", collection_id |-> NoCollection,
          question |-> "", k |-> 0, request_session |-> NoSession,
          session_id |-> NoSession, results |-> <<>>, expanded |-> <<>>,
          answer |-> "", pending_session |-> FALSE, pending_user |-> 0,
          status |-> 0, error |-> "none", failed_at |-> "none"]

AskInit ==
    /\ ask = [a \in Askers |-> NoAsk]
    /\ clock = 0

(***************************************************************************)
(* Retrieval, rag/retriever.py.                                            *)
(***************************************************************************)
\* the questions asked
Questions == {"a", "ccc"}

\* embeddings.py:28-34, get_embedding: a function of the text alone, here a
\* point on a line
get_embedding(text) == Len(text)

Abs(x) == IF x < 0 THEN -x ELSE x

\* retriever.py:36, Chunk.embedding.l2_distance(query_embedding); the stored
\* embedding is get_embedding(text) (upload.py:118)
l2_distance(chunk, query_embedding) == Abs(get_embedding(chunk.text) - query_embedding)

\* mutant: the collection filter is left out
ScopedChunks_unfiltered(collection_id) == chunks

\* retriever.py:49-53, the rows the statement ranges over
ScopedChunks(collection_id) ==
    IF collection_id # NoCollection
    THEN {c \in chunks : c.document_id \in DocumentsIn(collection_id)}
    ELSE chunks

\* mutant: the statement has no LIMIT
LimitRows_all(k, n) == n

\* retriever.py:46, .limit(k): how many of n rows the statement returns
LimitRows(k, n) == IF k < n THEN k ELSE n

\* retriever.py:36-55, ORDER BY distance LIMIT k: every sequence the statement
\* may return (rows at equal distance come in any order)
similarity_search_chunks_pgvector(question, k, collection_id) ==
    LET rows == ScopedChunks(collection_id)
        q == get_embedding(question)
        m == LimitRows(k, Cardinality(rows))
    IN  {out \in [1..m -> rows] :
            /\ \A i, j \in 1..m : i < j => out[i] # out[j]
            /\ \A i, j \in 1..m : i < j => l2_distance(out[i], q) <= l2_distance(out[j], q)
            /\ \A c \in rows : c \notin Range(out)
                  => \A i \in 1..m : l2_distance(out[i], q) <= l2_distance(c, q)}

\* mutant: the rows of every document in the index range
InWindow_anydocument(c, document_id, lo, hi) ==
    c.chunk_index >= lo /\ c.chunk_index <= hi

\* retriever.py:86-89, the WHERE clause
InWindow(c, document_id, lo, hi) ==
    /\ c.document_id = document_id
    /\ c.chunk_index >= lo /\ c.chunk_index <= hi

\* ORDER BY chunk_index / sort(key=chunk_index): the rows by ascending index
\* (chunks.id is document_id_index, so a document holds an index once)
RECURSIVE SortByIndex(_)
SortByIndex(rows) ==
    IF rows = {} THEN <<>>
    ELSE LET first == CHOOSE c \in rows : \A d \in rows : c.chunk_index <= d.chunk_index
         IN  <<first>> \o SortByIndex(rows \ {first})

TextsOf(rows) == [i \in 1..Len(rows) |-> rows[i].text]

\* retriever.py:71-92
get_context_chunks_from_db(document_id, center_index, window) ==
    LET lo == center_index - window
        hi == center_index + window
    IN  TextsOf(SortByIndex({c \in chunks : InWindow(c, document_id, lo, hi)}))

\* retriever.py:95-127, over the in-memory metadata of the same chunks
get_context_chunks(chunks_metadata, document_id, center_index, window) ==
    LET relevant == {data \in chunks_metadata :
                        /\ data.document_id = document_id
                        /\ Abs(data.chunk_index - center_index) <= window}
    IN  TextsOf(SortByIndex(relevant))

NoProbe == [op |-> "none", document_id |-> 0, center_index |-> 0, window |-> 0,
            question |-> "", k |-> 0, collection_id |-> NoCollection,
            rows |-> <<>>, texts |-> <<>>, texts_mem |-> <<>>]

\* a caller expands the context around a chunk
ExpandProbe ==
    /\ probe.op = "none"
    /\ \E document_id \in 1..(MaxDocs + 1), center_index \in (-1)..MaxChunks,
          window \in 0..2 :
          probe' = [NoProbe EXCEPT
                      !.op = "expand",
                      !.document_id = document_id,
                      !.center_index = center_index,
                      !.window = window,
                      !.texts = get_context_chunks_from_db(document_id, center_index, window),
                      !.texts_mem = get_context_chunks(chunks, document_id,
                                                       center_index, window)]
    /\ UNCHANGED <<asm_vars, db_vars, up_vars, ask_vars, acc_vars, vectorstore>>

\* a caller searches the k nearest chunks, in a collection or everywhere
SearchCall(ks) ==
    /\ probe.op = "none"
    /\ \E question \in Questions, k \in ks,
          collection_id \in {NoCollection} \cup collections :
          \E out \in similarity_search_chunks_pgvector(question, k, collection_id) :
              probe' = [NoProbe EXCEPT
                          !.op = "search",
                          !.question = question,
                          !.k = k,
                          !.collection_id = collection_id,
                          !.rows = out]
    /\ UNCHANGED <<asm_vars, db_vars, up_vars, ask_vars, acc_vars, vectorstore>>

\* a search with any k the request schema admits
SearchProbe == SearchCall(1..MaxK)

\* the caller is done with what the call returned
ProbeReturn ==
    /\ probe.op # "none"
    /\ probe' = NoProbe
    /\ UNCHANGED <<asm_vars, db_vars, up_vars, ask_vars, acc_vars, vectorstore>>

RetrieveNext == ExpandProbe \/ SearchProbe \/ ProbeReturn

\* the collections of the stores retrieval starts from
StoreCollections == {1, 2}

\* a store that uploads into the collections leave behind: documents 1..n, each
\* in a collection or in none, each with chunks 0..m-1
StoreOf(layout) ==
    [documents |-> {[id |-> d, collection_id |-> layout[d].collection_id] :
                       d \in 1..Len(layout)},
     chunks |-> UNION {ChunkModels(d, CHOOSE t \in FileChunks : Len(t) = layout[d].n) :
                          d \in 1..Len(layout)}]

Layouts == SeqsOf([n : 1..MaxChunks, collection_id : {NoCollection} \cup StoreCollections],
                  0, MaxDocs)

RetrieveInit ==
    /\ VsInit
    /\ AsmInit /\ MAX_CONTEXT_CHARS = MaxContextChars
    /\ UpInit
    /\ StoreAccInit
    /\ probe = NoProbe
    /\ AskInit
    /\ collections = StoreCollections
    /\ sessions = {CollectionSession(c) : c \in StoreCollections}
    /\ chat_messages = {}
    /\ last_collection = Cardinality(StoreCollections)
    /\ \E layout \in Layouts :
          /\ documents = StoreOf(layout).documents
          /\ chunks = StoreOf(layout).chunks
          /\ last_document = Len(layout)

(***************************************************************************)
(* Question answering: ask_question, routes/ask.py:34-155, and             *)
(* ask_collection_question, routes/collections.py:356-481.                 *)
(***************************************************************************)
\* retriever.py:83-91, the rows get_context_chunks_from_db reads
ContextRows(document_id, center_index, window) ==
    SortByIndex({c \in chunks :
        InWindow(c, document_id, center_index - window, center_index + window)})

\* ask.py:93-103, collections.py:424-432: the expansions of the seeds, in seed
\* order
RECURSIVE ExpandSeeds(_, _)
ExpandSeeds(docs_with_scores, i) ==
    IF i > Len(docs_with_scores) THEN <<>>
    ELSE ContextRows(docs_with_scores[i].document_id,
                     docs_with_scores[i].chunk_index, 2)
            \o ExpandSeeds(docs_with_scores, i + 1)

\* ask.py:67-77, collections.py:399-406: the stored history of a session, by
\* created_at (rows at equal created_at come in any order)
OrderedMessages(session_id) ==
    LET rows == {m \in chat_messages : m.session_id = session_id}
        n == Cardinality(rows)
    IN  {out \in [1..n -> rows] :
            /\ \A i, j \in 1..n : i < j => out[i] # out[j]
            /\ \A i, j \in 1..n : i < j => out[i].created_at <= out[j].created_at}

\* groq_client.py:16-68, generate_answer: whatever the model says
generate_answer(question, context, history) == Answers

\* the handler returned or raised: the response, the locals gone
Responded(r, status, error) ==
    [r EXCEPT !.pc = "done", !.k = 0, !.status = status, !.error = error,
              !.failed_at = IF status = 200 THEN "none" ELSE r.pc,
              !.results = <<>>, !.expanded = <<>>,
              !.pending_session = FALSE, !.pending_user = 0]

\* ask.py:54-139: corpus check, session id, search, expansion, assembly and
\* generation, or the failure of the embedding, the search or the model;
\* nothing is written
AskBegin(a) ==
    /\ ask[a].pc = "idle"
    /\ \E question \in Questions, k \in 1..MaxK,
          request_session \in {NoSession} \cup ClientSessionIds :
          LET effective_session_id ==
                  IF request_session # NoSession THEN request_session
                  ELSE Uuid4(a)
              r == [NoAsk EXCEPT !.pc = "begin", !.route = "ask",
                                 !.question = question, !.k = k,
                                 !.request_session = request_session]
          IN  IF chunks = {}
              THEN ask' = [ask EXCEPT ![a] = Responded(r, 503, "no_corpus")]
              ELSE \E docs_with_scores \in
                        similarity_search_chunks_pgvector(question, k, NoCollection) :
                     LET expanded == ExpandSeeds(docs_with_scores, 1)
                         unique == DictFromKeys(TextsOf(expanded))
                         parts == KeepParts(unique, 1, <<>>, 0, MAX_CONTEXT_CHARS)
                         history == IF request_session # NoSession
                                    THEN OrderedMessages(effective_session_id)
                                    ELSE {<<>>}
                         s == [r EXCEPT !.session_id = effective_session_id]
                     IN  \/ \E answer \in generate_answer(
                                   question, ContextForLlm(unique, parts), history) :
                                ask' = [ask EXCEPT ![a] =
                                          [s EXCEPT !.pc = "answered",
                                                    !.results = docs_with_scores,
                                                    !.expanded = expanded,
                                                    !.answer = answer]]
                         \/ \E error \in {"retrieval", "generation"} :
                                ask' = [ask EXCEPT ![a] = Responded(s, 500, error)]
    /\ UNCHANGED <<clock, asm_vars, db_vars, up_vars, probe, acc_vars, vectorstore>>

\* mutant: the check looks at the whole store
has_docs_anywhere(collection_id) == chunks # {}

\* collections.py:373-378: a chunk of a document of the collection exists
has_docs(collection_id) ==
    \E c \in chunks : c.document_id \in DocumentsIn(collection_id)

\* collections.py:356-450: the same on one collection, with the collection's
\* session
AskCollectionBegin(a) ==
    /\ ask[a].pc = "idle"
    /\ \E question \in Questions, k \in 1..MaxK, collection_id \in collections :
          LET r == [NoAsk EXCEPT !.pc = "begin", !.route = "collection",
                                 !.collection_id = collection_id,
                                 !.question = question, !.k = k]
              session == {x \in sessions : x.collection_id = collection_id}
          IN  IF ~has_docs(collection_id)
              THEN ask' = [ask EXCEPT ![a] = Responded(r, 503, "no_corpus")]
              ELSE IF session = {}
              THEN ask' = [ask EXCEPT ![a] = Responded(r, 500, "no_session")]
              ELSE \E x \in session, docs_with_scores \in
                        similarity_search_chunks_pgvector(question, k, collection_id) :
                     LET s == [r EXCEPT !.session_id = x.id]
                         expanded == ExpandSeeds(docs_with_scores, 1)
                     IN  IF docs_with_scores = <<>>
                         THEN ask' = [ask EXCEPT ![a] = Responded(s, 404, "no_results")]
                         ELSE \/ \E answer \in generate_answer(
                                       question, TextsOf(expanded),
                                       OrderedMessages(x.id)) :
                                    ask' = [ask EXCEPT ![a] =
                                              [s EXCEPT !.pc = "messages",
                                                        !.results = docs_with_scores,
                                                        !.expanded = expanded,
                                                        !.answer = answer]]
                              \/ \E error \in {"retrieval", "generation"} :
                                    ask' = [ask EXCEPT ![a] =
                                              Responded(s, 500, error)]
    /\ UNCHANGED <<clock, asm_vars, db_vars, up_vars, probe, acc_vars, vectorstore>>

\* ask.py:142, db.get(SessionModel, effective_session_id)
AskGetSession(a) ==
    /\ ask[a].pc = "answered"
    /\ ask' = [ask EXCEPT ![a].pc =
                  IF \E x \in sessions : x.id = ask[a].session_id
                  THEN "messages" ELSE "flush"]
    /\ UNCHANGED <<clock, asm_vars, db_vars, up_vars, probe, acc_vars, vectorstore>>

\* another transaction inserted the same session id and has not ended: the
\* INSERT waits on the primary key
SessionInsertWaits(a) ==
    \E b \in Askers \ {a} :
        ask[b].pending_session /\ ask[b].session_id = ask[a].session_id

\* mutant: the flushed session is committed at once
FlushedSessions_autocommit(a) == sessions \cup {[id |-> ask[a].session_id,
                                                 collection_id |-> NoCollection]}

\* ask.py:143-144, db.add(SessionModel(...)); db.flush(): the committed rows
\* stay as they are
FlushedSessions(a) == sessions

\* ask.py:143-144: the INSERT of the session, or the primary key's violation
AskFlushSession(a) ==
    /\ ask[a].pc = "flush"
    /\ ~SessionInsertWaits(a)
    /\ IF \E x \in sessions : x.id = ask[a].session_id
       THEN /\ ask' = [ask EXCEPT ![a] = Responded(ask[a], 500, "integrity")]
            /\ UNCHANGED sessions
       ELSE /\ ask' = [ask EXCEPT ![a].pc = "messages",
                                  ![a].pending_session = TRUE]
            /\ sessions' = FlushedSessions(a)
    /\ UNCHANGED <<collections, documents, chunks, chat_messages,
                   last_collection, last_document>>
    /\ UNCHANGED <<clock, asm_vars, up_vars, probe, acc_vars, vectorstore>>

\* models.py:44, chat_messages.session_id references sessions.id: the row is
\* committed, or this transaction inserted it
SessionRowVisible(a) ==
    ask[a].pending_session \/ \E x \in sessions : x.id = ask[a].session_id

\* ask.py:145, 147 (collections.py:453-464): the user message gets its
\* created_at when the flush of db.commit() inserts it
AskInsertUser(a) ==
    /\ ask[a].pc = "messages"
    /\ IF SessionRowVisible(a)
       THEN /\ clock' = clock + 1
            /\ ask' = [ask EXCEPT ![a].pc = "commit", ![a].pending_user = clock']
       ELSE /\ ask' = [ask EXCEPT ![a] = Responded(ask[a], 500, "integrity")]
            /\ UNCHANGED clock
    /\ UNCHANGED <<asm_vars, db_vars, up_vars, probe, acc_vars, vectorstore>>

\* mutant: the assistant message is stamped before the user message
TurnMessages_swapped(a, now) ==
    {[session_id |-> ask[a].session_id, role |-> "user", content |-> ask[a].question,
      created_at |-> now, request |-> a],
     [session_id |-> ask[a].session_id, role |-> "assistant", content |-> ask[a].answer,
      created_at |-> ask[a].pending_user, request |-> a]}

\* ask.py:145-146 (collections.py:453-462): the two rows of the turn
TurnMessages(a, now) ==
    {[session_id |-> ask[a].session_id, role |-> "user", content |-> ask[a].question,
      created_at |-> ask[a].pending_user, request |-> a],
     [session_id |-> ask[a].session_id, role |-> "assistant", content |-> ask[a].answer,
      created_at |-> now, request |-> a]}

\* ask.py:146-155 (collections.py:463-481): the assistant message, COMMIT and
\* the response
AskCommit(a) ==
    /\ ask[a].pc = "commit"
    /\ clock' = clock + 1
    /\ chat_messages' = chat_messages \cup TurnMessages(a, clock')
    /\ sessions' = IF ask[a].pending_session
                   THEN sessions \cup {[id |-> ask[a].session_id,
                                        collection_id |-> NoCollection]}
                   ELSE sessions
    /\ ask' = [ask EXCEPT ![a] = Responded(ask[a], 200, "none")]
    /\ UNCHANGED <<collections, documents, chunks, last_collection, last_document>>
    /\ UNCHANGED <<asm_vars, up_vars, probe, acc_vars, vectorstore>>

\* database.py:34-36: a statement fails or the request is cancelled; the
\* transaction is rolled back
AskFail(a) ==
    /\ ask[a].pc \in {"answered", "flush", "messages", "commit"}
    /\ ask' = [ask EXCEPT ![a] = Responded(ask[a], 500, "db")]
    /\ UNCHANGED <<clock, asm_vars, db_vars, up_vars, probe, acc_vars, vectorstore>>

\* sessions.py:21-55: every response the route may give
get_session(session_id) ==
    IF ~\E x \in sessions : x.id = session_id
    THEN {[status |-> 404, messages |-> <<>>]}
    ELSE {[status |-> 200,
           messages |-> [i \in 1..Len(rows) |->
                            [role |-> rows[i].role, content |-> rows[i].content]]] :
             rows \in OrderedMessages(session_id)}

\* the pages asked of get_collection_messages (collections.py:294-295)
Pages == 1..2

PageSizes == 1..2

\* collections.py:309-346: every response the route may give; the rows come
\* newest first
get_collection_messages(collection_id, page, page_size) ==
    LET session == {x \in sessions : x.collection_id = collection_id}
    IN  IF session = {}
        THEN {[status |-> 200, items |-> <<>>, total |-> 0]}
        ELSE IF Cardinality(session) > 1
        THEN {[status |-> 500, items |-> <<>>, total |-> 0]}
        ELSE LET x == CHOOSE y \in session : TRUE
                 offset == (page - 1) * page_size
             IN  {[status |-> 200,
                   items |-> [i \in 1..Min(page_size, IF Len(rows) > offset
                                                       THEN Len(rows) - offset ELSE 0) |->
                                 rows[Len(rows) + 1 - (offset + i)]],
                   total |-> Len(rows)] : rows \in OrderedMessages(x.id)}

AskNext ==
    \E a \in Askers :
        \/ AskBegin(a)
        \/ AskCollectionBegin(a)
        \/ AskGetSession(a)
        \/ AskFlushSession(a)
        \/ AskInsertUser(a)
        \/ AskCommit(a)
        \/ AskFail(a)

\* the stores question answering starts from: none, one document outside the
\* collections, and a document in each collection with the second one's third
\* chunk the nearest to the question "ccc"
AskLayouts ==
    {<<>>,
     <<[n |-> 2, collection_id |-> NoCollection]>>,
     <<[n |-> 1, collection_id |-> 1], [n |-> 3, collection_id |-> 2]>>}

AskStoreInit ==
    /\ VsInit
    /\ AsmInit /\ MAX_CONTEXT_CHARS = MaxContextChars
    /\ UpInit
    /\ StoreAccInit
    /\ probe = NoProbe
    /\ AskInit
    /\ collections = StoreCollections
    /\ sessions = {CollectionSession(c) : c \in StoreCollections}
    /\ chat_messages = {}
    /\ last_collection = Cardinality(StoreCollections)
    /\ \E layout \in AskLayouts :
          /\ documents = StoreOf(layout).documents
          /\ chunks = StoreOf(layout).chunks
          /\ last_document = Len(layout)

(***************************************************************************)
(* Chunking, rag/chunking.py.  A text is the sequence of its characters.   *)
(***************************************************************************)
\* the characters of the texts chunked: none of the splitter's separators
\* "\n\n", "\n", ". ", " " (chunking.py:17) occurs, "\t" is white space
ChunkChars == {"x", "y", "\t"}

Whitespace == {" ", "\t", "\n"}

ChunkTexts == SeqsOf(ChunkChars, 0, MaxTextLen)

\* str.strip()
RECURSIVE LStrip(_)
LStrip(text) ==
    IF text # <<>> /\ Head(text) \in Whitespace THEN LStrip(Tail(text)) ELSE text

RECURSIVE RStrip(_)
RStrip(text) ==
    IF text # <<>> /\ text[Len(text)] \in Whitespace
    THEN RStrip(SubSeq(text, 1, Len(text) - 1)) ELSE text

Strip(text) == LStrip(RStrip(text))

\* "".join(docs)
RECURSIVE Concat(_)
Concat(docs) == IF docs = <<>> THEN <<>> ELSE Head(docs) \o Concat(Tail(docs))

\* TextSplitter._join_docs with strip_whitespace=True (chunking.py:18): the
\* joined text stripped, nothing when it is empty
JoinDocs(current_doc) ==
    LET joined == Strip(Concat(current_doc))
    IN  IF joined = <<>> THEN <<>> ELSE <<joined>>

\* the while loop of TextSplitter._merge_splits: pieces are dropped from the
\* front while more than chunk_overlap is kept or the next piece does not fit
RECURSIVE PopFront(_, _, _, _)
PopFront(current_doc, len, chunk_size, chunk_overlap) ==
    LET total == Len(Concat(current_doc))
    IN  IF total > chunk_overlap \/ (total + len > chunk_size /\ total > 0)
        THEN PopFront(Tail(current_doc), len, chunk_size, chunk_overlap)
        ELSE current_doc

\* mutant: the next chunk starts where the last one ended
KeptOverlap_none(current_doc, len, chunk_size, chunk_overlap) == <<>>

\* what _merge_splits keeps of a full chunk as the start of the next one
KeptOverlap(current_doc, len, chunk_size, chunk_overlap) ==
    PopFront(current_doc, len, chunk_size, chunk_overlap)

\* TextSplitter._merge_splits with the separator "": the pieces packed up to
\* chunk_size
RECURSIVE MergeSplits(_, _, _, _, _)
MergeSplits(splits, i, current_doc, chunk_size, chunk_overlap) ==
    IF i > Len(splits) THEN JoinDocs(current_doc)
    ELSE LET d == splits[i]
             total == Len(Concat(current_doc))
         IN  IF total + Len(d) > chunk_size /\ current_doc # <<>>
             THEN JoinDocs(current_doc)
                    \o MergeSplits(splits, i + 1,
                                   Append(KeptOverlap(current_doc, Len(d), chunk_size,
                                                      chunk_overlap), d),
                                   chunk_size, chunk_overlap)
             ELSE MergeSplits(splits, i + 1, Append(current_doc, d),
                              chunk_size, chunk_overlap)

\* RecursiveCharacterTextSplitter.split_text (chunking.py:12-19, 36) of a text
\* holding no separator but the last one, "": the characters are the pieces; a
\* piece as long as chunk_size is a chunk of its own, the shorter ones are
\* merged
SplitText(text, chunk_size, chunk_overlap) ==
    LET splits == [i \in 1..Len(text) |-> <<text[i]>>]
    IN  IF 1 < chunk_size
        THEN MergeSplits(splits, 1, <<>>, chunk_size, chunk_overlap)
        ELSE splits

Returned(result) == [raised |-> "none", chunks |-> result]

Raised(error) == [raised |-> error, chunks |-> <<>>]

\* chunking.py:22-37
chunk_text(text, chunk_size, chunk_overlap) ==
    IF chunk_overlap >= chunk_size THEN Raised("ValueError")
    ELSE IF text = <<>> \/ Strip(text) = <<>> THEN Returned(<<>>)
    ELSE Returned(SelectSeq(SplitText(Strip(text), chunk_size, chunk_overlap),
                            LAMBDA c : Strip(c) # <<>>))

\* the keyword a caller passes the overlap by: chunk_overlap, the parameter's
\* name (chunking.py:25), or overlap (test_chunking.py:10)
OverlapKeywords == {"chunk_overlap", "overlap"}

\* the call chunk_text(text, chunk_size=..., <keyword>=...): a keyword the
\* function does not have is a TypeError
CallChunkText(text, chunk_size, keyword, value) ==
    IF keyword # "chunk_overlap" THEN Raised("TypeError")
    ELSE chunk_text(text, chunk_size, value)

\* a caller chunks a text
ChunkProbe ==
    /\ probe.op = "none"
    /\ \E text \in ChunkTexts, chunk_size \in 1..MaxChunkSize,
          overlap \in 0..MaxChunkSize, keyword \in OverlapKeywords :
          probe' = [op |-> "chunk_text", text |-> text, chunk_size |-> chunk_size,
                    overlap |-> overlap, keyword |-> keyword,
                    result |-> CallChunkText(text, chunk_size, keyword, overlap)]
    /\ UNCHANGED <<asm_vars, db_vars, up_vars, ask_vars, acc_vars, vectorstore>>

ChunkNext == ChunkProbe \/ ProbeReturn

(***************************************************************************)
(* Text normalisation, rag/document_processor.py:14-64.                    *)
(***************************************************************************)
\* the characters of the texts normalised: a lower-case and an upper-case
\* letter, terminal punctuation, and white space of every kind the function
\* tells apart
NormChars == {"a", "A", ".", " ", "\t", "\n", "\r", "\f"}

NormTexts == SeqsOf(NormChars, 0, MaxNormLen)

\* str.isspace
Space == {" ", "\t", "\n", "\r", "\f"}

\* str.isupper of a character
Upper == {"A"}

\* the class [.!?] of sentence_end (document_processor.py:30)
Terminal == {".", "!", "?"}

\* str.strip()
RECURSIVE NormStrip(_)
NormStrip(text) ==
    IF text = <<>> THEN <<>>
    ELSE IF Head(text) \in Space THEN NormStrip(Tail(text))
    ELSE IF text[Len(text)] \in Space THEN NormStrip(SubSeq(text, 1, Len(text) - 1))
    ELSE text

\* document_processor.py:25, replace("\r\n", "\n").replace("\r", "\n")
RECURSIVE ReplaceCr(_)
ReplaceCr(text) ==
    IF text = <<>> THEN <<>>
    ELSE IF Len(text) >= 2 /\ text[1] = "\r" /\ text[2] = "\n"
         THEN <<"\n">> \o ReplaceCr(SubSeq(text, 3, Len(text)))
    ELSE IF text[1] = "\r" THEN <<"\n">> \o ReplaceCr(Tail(text))
    ELSE <<text[1]>> \o ReplaceCr(Tail(text))

\* text.split("\n")
RECURSIVE SplitNl(_, _)
SplitNl(text, line) ==
    IF text = <<>> THEN <<line>>
    ELSE IF Head(text) = "\n" THEN <<line>> \o SplitNl(Tail(text), <<>>)
    ELSE SplitNl(Tail(text), Append(line, Head(text)))

\* document_processor.py:26, the stripped lines that are not blank
StrippedLines(text) ==
    LET raw == SplitNl(text, <<>>)
        stripped == [i \in 1..Len(raw) |-> NormStrip(raw[i])]
    IN  SelectSeq(stripped, LAMBDA ln : ln # <<>>)

\* document_processor.py:30, 38: sentence_end.search(line), [.!?]\s*$
EndsSentence(line) ==
    \E i \in 1..Len(line) :
        /\ line[i] \in Terminal
        /\ \A j \in (i + 1)..Len(line) : line[j] \in Space

\* document_processor.py:39
StartsUpper(line) == Len(line) > 0 /\ line[1] \in Upper

\* len(next_ln.split())
WordCount(line) ==
    Cardinality({i \in 1..Len(line) :
        line[i] \notin Space /\ (i = 1 \/ line[i - 1] \in Space)})

\* document_processor.py:41
IsShort(next_ln) == WordCount(next_ln) <= 4 \/ Len(next_ln) < 40

\* mutant: the inner loop breaks after every sentence end
BreaksBefore_punct(current, next_ln) == EndsSentence(current)

\* document_processor.py:42-49: whether the inner loop breaks before next_ln
BreaksBefore(current, next_ln) ==
    IF ~EndsSentence(current) /\ (~StartsUpper(next_ln) \/ IsShort(next_ln))
    THEN FALSE
    ELSE EndsSentence(current) /\ StartsUpper(next_ln)

\* document_processor.py:33-51: the lines merged
RECURSIVE MergeLines(_, _, _)
MergeLines(lines, i, current) ==
    IF i + 1 > Len(lines) THEN <<current>>
    ELSE IF BreaksBefore(current, lines[i + 1])
         THEN <<current>> \o MergeLines(lines, i + 1, lines[i + 1])
    ELSE MergeLines(lines, i + 1, NormStrip(current \o <<" ">> \o lines[i + 1]))

\* document_processor.py:54-59: the merged lines and the empty lines between
\* them
RECURSIVE ParagraphLines(_, _)
ParagraphLines(merged, j) ==
    IF j > Len(merged) THEN <<>>
    ELSE <<merged[j]>>
            \o (IF j + 1 <= Len(merged) /\ EndsSentence(merged[j])
                   /\ merged[j + 1] # <<>> /\ StartsUpper(merged[j + 1])
                THEN <<<<>>>> ELSE <<>>)
            \o ParagraphLines(merged, j + 1)

\* "\n".join(result)
RECURSIVE JoinNl(_)
JoinNl(result) ==
    IF result = <<>> THEN <<>>
    ELSE IF Len(result) = 1 THEN result[1]
    ELSE result[1] \o <<"\n">> \o JoinNl(Tail(result))

\* document_processor.py:62, re.sub(r"[ \t]+", " ", text)
RECURSIVE CollapseBlanks(_)
CollapseBlanks(text) ==
    IF text = <<>> THEN <<>>
    ELSE IF text[1] \in {" ", "\t"}
         THEN IF Len(text) >= 2 /\ text[2] \in {" ", "\t"}
              THEN CollapseBlanks(Tail(text))
              ELSE <<" ">> \o CollapseBlanks(Tail(text))
    ELSE <<text[1]>> \o CollapseBlanks(Tail(text))

\* document_processor.py:63, re.sub(r"\n{3,}", "\n\n", text)
RECURSIVE CollapseNewlines(_)
CollapseNewlines(text) ==
    IF text = <<>> THEN <<>>
    ELSE IF Len(text) >= 3 /\ text[1] = "\n" /\ text[2] = "\n" /\ text[3] = "\n"
         THEN CollapseNewlines(Tail(text))
    ELSE <<text[1]>> \o CollapseNewlines(Tail(text))

\* mutant: a blank text is returned as it came
BlankResult_unchanged(text) == text

\* document_processor.py:21-22, 27-28: return ""
BlankResult(text) == <<>>

\* document_processor.py:14-64
normalize_text_for_rag(text) ==
    IF text = <<>> \/ NormStrip(text) = <<>> THEN BlankResult(text)
    ELSE LET lines == StrippedLines(ReplaceCr(text))
         IN  IF lines = <<>> THEN BlankResult(text)
             ELSE LET merged == MergeLines(lines, 1, lines[1])
                      joined == JoinNl(ParagraphLines(merged, 1))
                  IN  NormStrip(CollapseNewlines(CollapseBlanks(joined)))

\* a caller normalises a text, and what normalising the result again gives
NormalizeProbe ==
    /\ probe.op = "none"
    /\ \E text \in NormTexts :
          probe' = [op |-> "normalize", text |-> text,
                    once |-> normalize_text_for_rag(text),
                    twice |-> normalize_text_for_rag(normalize_text_for_rag(text))]
    /\ UNCHANGED <<asm_vars, db_vars, up_vars, ask_vars, acc_vars, vectorstore>>

NormalizeNext == NormalizeProbe \/ ProbeReturn

(***************************************************************************)
(* Chat history: ask.py:63-77 and groq_client.py:43-48.                    *)
(***************************************************************************)
\* the session whose history is loaded
HistorySession == [kind |-> "client", n |-> 1, of |-> ""]

\* role and content of rows
RoleContent(rows) ==
    [i \in 1..Len(rows) |-> [role |-> rows[i].role, content |-> rows[i].content]]

\* ask.py:67-76: ORDER BY created_at ASC LIMIT MAX_HISTORY_LOAD
LoadHistory(session_id, limit) ==
    {SubSeq(rows, 1, Min(limit, Len(rows))) : rows \in OrderedMessages(session_id)}

\* ask.py:64-77: history_list, from the body or from the rows loaded
HistoryList(request_history, has_session_id, rows) ==
    IF request_history # <<>> THEN request_history
    ELSE IF has_session_id THEN RoleContent(rows)
    ELSE <<>>

\* groq_client.py:46, history[-n:] for n >= 0: -0 is 0, the whole list
LastMessages(history, n) ==
    IF n = 0 THEN history
    ELSE SubSeq(history, Len(history) - Min(n, Len(history)) + 1, Len(history))

\* groq_client.py:43-48: the messages sent to the model
ModelMessages(question, context, history, n) ==
    <<[role |-> "system", content |-> context]>>
        \o (IF history # <<>> THEN LastMessages(history, n) ELSE <<>>)
        \o <<[role |-> "user", content |-> question]>>

\* the histories a request body may carry
RequestHistories ==
    {<<>>, <<[role |-> "user", content |-> "x"]>>,
     <<[role |-> "user", content |-> "x"], [role |-> "assistant", content |-> "y"],
       [role |-> "user", content |-> "z"]>>}

\* ask.py:63-77, 135-139 with groq_client.py:43-48: a question with or without
\* session_id and history, under a configuration of the two limits
HistoryProbe ==
    /\ probe.op = "none"
    /\ \E load \in 0..MaxHistory, send \in 0..MaxHistory,
          request_history \in RequestHistories, has_session_id \in BOOLEAN,
          question \in Questions :
          \E rows \in LoadHistory(HistorySession, load) :
              LET history == HistoryList(request_history, has_session_id, rows)
              IN  probe' = [op |-> "history",
                            MAX_HISTORY_LOAD |-> load,
                            MAX_HISTORY_MESSAGES |-> send,
                            request_history |-> request_history,
                            has_session_id |-> has_session_id,
                            question |-> question,
                            rows |-> rows,
                            history |-> history,
                            messages |-> ModelMessages(question, "context", history, send)]
    /\ UNCHANGED <<asm_vars, db_vars, up_vars, ask_vars, acc_vars, vectorstore>>

HistoryNext == HistoryProbe \/ ProbeReturn

\* the turns stored in the session: n messages, a user message and its answer
\* in turn, at successive times
StoredHistory(n) ==
    {[session_id |-> HistorySession,
      role |-> IF i % 2 = 1 THEN "user" ELSE "assistant",
      content |-> IF i % 2 = 1 THEN "a" ELSE "ok",
      created_at |-> i, request |-> "a1"] : i \in 1..n}

HistoryInit ==
    /\ VsInit
    /\ AsmInit /\ MAX_CONTEXT_CHARS = MaxContextChars
    /\ UpInit
    /\ AccInit
    /\ probe = NoProbe
    /\ ask = [a \in Askers |-> NoAsk]
    /\ collections = {}
    /\ documents = {}
    /\ chunks = {}
    /\ last_collection = 0
    /\ last_document = 0
    /\ sessions = {[id |-> HistorySession, collection_id |-> NoCollection]}
    /\ \E n \in 0..MaxMessages :
          /\ chat_messages = StoredHistory(n)
          /\ clock = n

(***************************************************************************)
(* Access to the collections, dependencies.py, utils/token.py and          *)
(* unlock_collection.                                                     *)
(***************************************************************************)
\* token.py:13
ACCESS_TOKEN_EXPIRE_HOURS == 2

\* what a request without a usable token carries
NoToken == [collection_id |-> NoCollection, exp |-> 0, signed |-> FALSE]

\* token.py:16-32: the payload, signed with SECRET_KEY
create_collection_access_token(collection_id) ==
    [collection_id |-> collection_id, exp |-> utcnow + ACCESS_TOKEN_EXPIRE_HOURS,
     signed |-> TRUE]

\* token.py:35-52: the collection_id of a token whose signature is SECRET_KEY's
\* and whose exp is in the future; None otherwise
verify_collection_token(token) ==
    IF token.signed /\ utcnow < token.exp THEN token.collection_id ELSE NoCollection

\* tokens nobody signed with SECRET_KEY
ForgedTokens ==
    {[collection_id |-> c, exp |-> MaxTime + ACCESS_TOKEN_EXPIRE_HOURS, signed |-> FALSE] :
        c \in 1..last_collection}

\* the Authorization headers a request may carry: none, blank, another scheme,
\* or Bearer with a token
Authorizations ==
    {[scheme |-> x, token |-> NoToken] : x \in {"none", "blank", "Basic"}}
        \cup {[scheme |-> "Bearer", token |-> t] : t \in tokens \cup ForgedTokens}

\* mutant: the token's collection is not compared with the path's
get_collection_with_access_anytoken(collection_id, authorization) ==
    IF collection_id \notin collections THEN 404
    ELSE IF collection_access[collection_id].is_public
    THEN IF authorization.scheme \in {"none", "blank"} THEN 200
         ELSE IF authorization.scheme # "Bearer" THEN 401
         ELSE 200
    ELSE IF authorization.scheme \in {"none", "blank"} THEN 401
    ELSE IF authorization.scheme # "Bearer" THEN 401
    ELSE IF verify_collection_token(authorization.token) = NoCollection THEN 401
    ELSE 200

\* dependencies.py:10-83: the status of the request, 200 when the collection
\* is handed to the route
get_collection_with_access(collection_id, authorization) ==
    IF collection_id \notin collections THEN 404
    ELSE IF collection_access[collection_id].is_public
    THEN IF authorization.scheme \in {"none", "blank"} THEN 200
         ELSE IF authorization.scheme # "Bearer" THEN 401
         ELSE LET token_collection_id == verify_collection_token(authorization.token)
              IN  IF token_collection_id # NoCollection
                       /\ token_collection_id # collection_id
                  THEN 403
                  ELSE 200
    ELSE IF authorization.scheme \in {"none", "blank"} THEN 401
    ELSE IF authorization.scheme # "Bearer" THEN 401
    ELSE LET token_collection_id == verify_collection_token(authorization.token)
         IN  IF token_collection_id = NoCollection THEN 401
             ELSE IF token_collection_id # collection_id THEN 403
             ELSE 200

\* collections.py:139-163: the status and the token of the response
unlock_collection(collection_id, code) ==
    IF collection_id \notin collections
    THEN [status |-> 404, access_token |-> NoToken]
    ELSE IF ~collection_access[collection_id].is_public /\ code = ""
    THEN [status |-> 400, access_token |-> NoToken]
    ELSE IF ~collection_access[collection_id].is_public
              /\ ~verify_code(code, collection_access[collection_id].code)
    THEN [status |-> 401, access_token |-> NoToken]
    ELSE [status |-> 200,
          access_token |-> create_collection_access_token(collection_id)]

\* a request to POST /collections/{id}/unlock and its response
UnlockProbe ==
    /\ probe.op = "none"
    /\ Cardinality(tokens) < MaxTokens
    /\ \E collection_id \in 1..last_collection, code \in Codes \cup {""} :
          LET response == unlock_collection(collection_id, code)
          IN  /\ probe' = [op |-> "unlock", collection_id |-> collection_id,
                           code |-> code, status |-> response.status,
                           access_token |-> response.access_token]
              /\ tokens' = IF response.status = 200
                           THEN tokens \cup {response.access_token}
                           ELSE tokens
    /\ UNCHANGED <<collection_access, utcnow>>
    /\ UNCHANGED <<asm_vars, db_vars, up_vars, ask_vars, vectorstore>>

\* a request to a route that depends on get_collection_with_access
AccessProbe ==
    /\ probe.op = "none"
    /\ \E collection_id \in 1..last_collection, authorization \in Authorizations :
          probe' = [op |-> "access", collection_id |-> collection_id,
                    authorization |-> authorization,
                    status |-> get_collection_with_access(collection_id, authorization)]
    /\ UNCHANGED <<asm_vars, db_vars, up_vars, ask_vars, acc_vars, vectorstore>>

\* an hour passes
Tick ==
    /\ utcnow < MaxTime
    /\ utcnow' = utcnow + 1
    /\ UNCHANGED <<collection_access, tokens>>
    /\ UNCHANGED <<asm_vars, db_vars, up_vars, probe, ask_vars, vectorstore>>

AccessNext ==
    \/ UnlockProbe
    \/ AccessProbe
    \/ Tick
    \/ ProbeReturn
    \/ \E collection_id \in StoreCollections : delete_collection(collection_id)

\* two collections, each public or private with a code, without documents
AccessInit ==
    /\ VsInit
    /\ AsmInit /\ MAX_CONTEXT_CHARS = MaxContextChars
    /\ UpInit
    /\ probe = NoProbe
    /\ AskInit
    /\ collections = StoreCollections
    /\ \E first, second \in CollectionCreate :
          collection_access = [c \in StoreCollections |->
              LET collection == IF c = 1 THEN first ELSE second
              IN  [is_public |-> collection.is_public,
                   code |-> IF collection.code # "" THEN hash_code(collection.code)
                            ELSE NoHash]]
    /\ tokens = {}
    /\ utcnow = 0
    /\ documents = {}
    /\ chunks = {}
    /\ sessions = {CollectionSession(c) : c \in StoreCollections}
    /\ chat_messages = {}
    /\ last_collection = Cardinality(StoreCollections)
    /\ last_document = 0

(***************************************************************************)
(* The FAISS index, rag/vectorstore.py.  The store is the list of the      *)
(* documents indexed, in the order they were added.                        *)
(***************************************************************************)
\* the lists of documents passed to the store: never empty, upload.py:124-128
\* passes the chunks of a file
DocumentLists == SeqsOf(1..MaxDocs, 1, 2)

\* vectorstore.py:18-20
is_initialized == vectorstore.initialized

\* vectorstore.py:28-35, FAISS.from_documents: a new index of these documents
\* in the place of the one before
init_vectorstore ==
    /\ probe.op = "none"
    /\ \E docs \in DocumentLists :
          /\ vectorstore' = [initialized |-> TRUE, docs |-> docs]
          /\ probe' = [op |-> "init_vectorstore", documents |-> docs,
                       raised |-> "none"]
    /\ UNCHANGED <<asm_vars, db_vars, up_vars, ask_vars, acc_vars>>

\* vectorstore.py:38-45
add_documents ==
    /\ probe.op = "none"
    /\ \E docs \in DocumentLists :
          IF ~is_initialized
          THEN /\ probe' = [op |-> "add_documents", documents |-> docs,
                            raised |-> "RuntimeError"]
               /\ UNCHANGED vectorstore
          ELSE /\ Len(vectorstore.docs) + Len(docs) <= MaxStored
               /\ vectorstore' = [vectorstore EXCEPT !.docs = @ \o docs]
               /\ probe' = [op |-> "add_documents", documents |-> docs,
                            raised |-> "none"]
    /\ UNCHANGED <<asm_vars, db_vars, up_vars, ask_vars, acc_vars>>

\* vectorstore.py:48-51
reset_vectorstore ==
    /\ probe.op = "none"
    /\ vectorstore' = NoStore
    /\ probe' = [op |-> "reset_vectorstore", documents |-> <<>>, raised |-> "none"]
    /\ UNCHANGED <<asm_vars, db_vars, up_vars, ask_vars, acc_vars>>

\* the caller is done with what the call returned
VectorstoreReturn ==
    /\ probe.op # "none"
    /\ probe' = NoProbe
    /\ UNCHANGED <<asm_vars, db_vars, up_vars, ask_vars, acc_vars, vectorstore>>

VectorstoreNext ==
    init_vectorstore \/ add_documents \/ reset_vectorstore \/ VectorstoreReturn

(***************************************************************************)
(* Specifications.                                                         *)
(***************************************************************************)
Init ==
    /\ AsmInit /\ DbInit /\ UpInit /\ probe = NoProbe /\ AskInit /\ AccInit
    /\ VsInit

Next ==
    \/ AsmNext \/ IngestNext \/ RetrieveNext \/ AskNext \/ ChunkNext \/ NormalizeNext
    \/ AccessNext
    \/ HistoryNext
    \/ VectorstoreNext

Spec == Init /\ [][Next]_vars

\* the context assembly alone, over every input list and every budget
SpecAssemble == Init /\ [][AsmNext]_vars

\* ingestion and deletion, with the assembler's configuration fixed
IngestInit == Init /\ MAX_CONTEXT_CHARS = MaxContextChars

SpecIngest == IngestInit /\ [][IngestNext]_vars

\* retrieval over the stores ingestion leaves behind
SpecRetrieve == RetrieveInit /\ [][RetrieveNext]_vars

\* question answering by concurrent requests over a fixed corpus
SpecAsk == AskStoreInit /\ [][AskNext]_vars

\* normalize_text_for_rag over every text
SpecNormalize == IngestInit /\ [][NormalizeNext]_vars

\* chunk_text over every text, size and overlap
SpecChunk == IngestInit /\ [][ChunkNext]_vars

\* question answering while collections and documents are deleted
LifecycleNext ==
    \/ AskNext
    \/ \E collection_id \in StoreCollections : delete_collection(collection_id)
    \/ \E collection_id \in StoreCollections, document_ids \in DocumentIdLists :
          delete_collection_documents(collection_id, document_ids)

\* the store of AskLayouts with the second collection private: its code is
\* set and no token has been issued
PrivateStoreInit ==
    /\ VsInit
    /\ AsmInit /\ MAX_CONTEXT_CHARS = MaxContextChars
    /\ UpInit
    /\ probe = NoProbe
    /\ AskInit
    /\ \E code \in Codes :
          collection_access = [c \in StoreCollections |->
              IF c = 2 THEN [is_public |-> FALSE, code |-> hash_code(code)]
              ELSE [is_public |-> TRUE, code |-> NoHash]]
    /\ tokens = {}
    /\ utcnow = 0
    /\ collections = StoreCollections
    /\ sessions = {CollectionSession(c) : c \in StoreCollections}
    /\ chat_messages = {}
    /\ last_collection = Cardinality(StoreCollections)
    /\ \E layout \in AskLayouts :
          /\ documents = StoreOf(layout).documents
          /\ chunks = StoreOf(layout).chunks
          /\ last_document = Len(layout)

\* the requests of POST /ask, which carry no token
UnscopedAskNext ==
    \E a \in Askers :
        \/ AskBegin(a)
        \/ AskGetSession(a)
        \/ AskFlushSession(a)
        \/ AskInsertUser(a)
        \/ AskCommit(a)
        \/ AskFail(a)

\* questions without a token over a store with a private collection
SpecUnscopedAsk == PrivateStoreInit /\ [][UnscopedAskNext]_vars

\* the FAISS index under every order of its calls
SpecVectorstore == IngestInit /\ [][VectorstoreNext]_vars

SpecLifecycle == AskStoreInit /\ [][LifecycleNext]_vars

\* the request that asks a collection
ChatAskers == {"a1"}

\* collections are created, filled by one upload, asked and deleted
CollectionChatNext ==
    \/ \E collection \in {c \in CollectionCreate : c.is_public} :
          create_collection(collection)
    \/ \E u \in Uploaders :
          \/ up_pc[u] = "idle" /\ UploadBegin(u)
          \/ UploadFlushFile(u)
          \/ UploadCommitFile(u)
          \/ UploadRespond(u)
    \/ \E a \in ChatAskers :
          \/ AskCollectionBegin(a)
          \/ AskInsertUser(a)
          \/ AskCommit(a)
          \/ AskFail(a)
    \/ \E collection_id \in 1..MaxCollections : delete_collection(collection_id)

SpecCollectionChat == IngestInit /\ [][CollectionChatNext]_vars

\* the two requests that upload at once
ConcurrentUploaders == {"u1", "u2"}

ConcurrentInit ==
    /\ VsInit
    /\ AsmInit /\ MAX_CONTEXT_CHARS = MaxContextChars
    /\ DbInit
    /\ AccInit
    /\ AskInit
    /\ probe = NoProbe
    /\ up_pc = [u \in ConcurrentUploaders |-> "idle"]
    /\ up_collection = [u \in ConcurrentUploaders |-> NoCollection]
    /\ up_n = [u \in ConcurrentUploaders |-> 0]
    /\ up_i = [u \in ConcurrentUploaders |-> 0]
    /\ up_tx = [u \in ConcurrentUploaders |-> NoTx]
    /\ uploaded_files = [u \in ConcurrentUploaders |-> <<>>]
    /\ failed_files = [u \in ConcurrentUploaders |-> <<>>]
    /\ up_response = [u \in ConcurrentUploaders |-> NoResponse]

\* each uploader sends one request; a search is one statement, which reads
\* one snapshot of the committed rows, here for the nearest chunk
ConcurrentNext ==
    \/ \E u \in ConcurrentUploaders :
          \/ up_pc[u] = "idle" /\ UploadBegin(u)
          \/ UploadRejectFile(u)
          \/ UploadFlushFile(u)
          \/ UploadFileError(u)
          \/ UploadCommitFile(u)
          \/ UploadRespond(u)
    \/ SearchCall({1})
    \/ ProbeReturn

\* concurrent uploads and searches on a store that starts empty
SpecConcurrent == ConcurrentInit /\ [][ConcurrentNext]_vars

\* the history of a question, over stored sessions of every length
SpecHistory == HistoryInit /\ [][HistoryNext]_vars

\* unlocking and entering two collections while the clock runs
SpecAccess == AccessInit /\ [][AccessNext]_vars

(***************************************************************************)
(* Claims about context assembly (checked under SpecAssemble).             *)
(***************************************************************************)
Occurrences(s, t) == {i \in 1..Len(s) : s[i] = t}

FirstIndex(s, t) == CHOOSE i \in Occurrences(s, t) : \A j \in Occurrences(s, t) : i <= j

IsPrefix(s, t) == Len(s) <= Len(t) /\ \A i \in 1..Len(s) : s[i] = t[i]

\* C1: for every list of expanded texts and every MAX_CONTEXT_CHARS, the kept
\* parts joined by the separator are at most MAX_CONTEXT_CHARS long and the
\* context sent to the model at most MAX_CONTEXT_CHARS plus the marker.
C1_ContextWithinBudget ==
    asm_pc = "assembled" =>
        /\ Len(Join(context_parts)) <= MAX_CONTEXT_CHARS
        /\ Len(context_for_llm) <= MAX_CONTEXT_CHARS + Len(TRUNCATION_MARKER)

\* C2 as stated: a text that occurs more than once in the flattened expansions
\* appears exactly once in the kept parts, at the position of its first
\* occurrence among the distinct texts.
C2_DuplicateKeptExactlyOnce ==
    asm_pc = "assembled" =>
        \A t \in Range(all_context_chunks) :
            Cardinality(Occurrences(all_context_chunks, t)) >= 2 =>
                Cardinality(Occurrences(context_parts, t)) = 1

\* C2 amended: the deduplicated list holds every expanded text exactly once,
\* ordered by first occurrence in the flattened list; the kept parts (and so the
\* context) are a prefix of it, so a repeated text is kept at most once, at its
\* first-occurrence position, and exactly once whenever truncation did not drop it.
C2_DedupFirstOccurrence ==
    asm_pc = "assembled" =>
        /\ Range(unique_chunks) = Range(all_context_chunks)
        /\ \A t \in Range(all_context_chunks) :
              Cardinality(Occurrences(unique_chunks, t)) = 1
        /\ \A i, j \in 1..Len(unique_chunks) :
              i < j => FirstIndex(all_context_chunks, unique_chunks[i])
                         < FirstIndex(all_context_chunks, unique_chunks[j])
        /\ IsPrefix(context_parts, unique_chunks)
        /\ Len(context_parts) = Len(unique_chunks) =>
              \A t \in Range(all_context_chunks) :
                  Cardinality(Occurrences(context_parts, t)) = 1
        /\ context_for_llm \in {Join(context_parts),
                               Join(context_parts) \o TRUNCATION_MARKER}

\* a repeated text is kept, after another text, while a later part is dropped
C2_Witness ==
    /\ asm_pc = "assembled"
    /\ Len(context_parts) >= 2
    /\ Len(unique_chunks) > Len(context_parts)
    /\ \E t \in Range(context_parts) :
          /\ Cardinality(Occurrences(all_context_chunks, t)) >= 2
          /\ context_parts[1] # t

\* C14: the truncation marker is appended to the assembled context if and
\* only if at least one deduplicated part was dropped; when every
\* deduplicated part is kept the context is exactly the kept parts joined by
\* the separator, without marker.
C14_MarkerIffDropped ==
    asm_pc = "assembled" =>
        LET dropped == \E t \in Range(all_context_chunks) : t \notin Range(context_parts)
        IN  /\ dropped => context_for_llm = Join(context_parts) \o TRUNCATION_MARKER
            /\ ~dropped => context_for_llm = Join(context_parts)

\* two parts were kept, a third one dropped and the marker appended
C14_Witness ==
    /\ asm_pc = "assembled"
    /\ Len(context_parts) = 2
    /\ Len(unique_chunks) = 3
    /\ context_for_llm = Join(context_parts) \o TRUNCATION_MARKER

\* C22: ask_collection_question assembles as ask_question does: from the same
\* expansions and the same MAX_CONTEXT_CHARS both build the same context and
\* the same context_used.
C22_SameAssembly ==
    asm_pc = "assembled" =>
        LET collection == CollectionContext(all_context_chunks, MAX_CONTEXT_CHARS)
        IN  /\ collection.context_str = context_for_llm
            /\ collection.context_texts = context_parts

\* the length of the first n parts joined by the separator
JoinedLen(parts, n) == Len(Join(SubSeq(parts, 1, n)))

\* C23: the kept parts are a prefix of the deduplicated list; each kept part,
\* with its separator, fitted in max_chars when it was added; the first part
\* left out did not fit; and the output is flagged truncated when a part was
\* left out.
C23_PrefixWithinBudget ==
    asm_pc = "assembled" =>
        LET n == Len(context_parts)
        IN  /\ IsPrefix(context_parts, unique_chunks)
            /\ \A j \in 1..n : JoinedLen(unique_chunks, j) <= MAX_CONTEXT_CHARS
            /\ n < Len(unique_chunks) =>
                  /\ JoinedLen(unique_chunks, n + 1) > MAX_CONTEXT_CHARS
                  /\ context_for_llm = Join(context_parts) \o TRUNCATION_MARKER

(***************************************************************************)
(* Claims about question answering (checked under SpecAsk).                *)
(***************************************************************************)
InFlight(a) == ask[a].pc \in {"answered", "flush", "messages", "commit"}

\* C3: a search scoped to a collection returns no chunk of a document of
\* another collection, also when such a chunk is the nearest of all; every seed
\* and every expanded neighbour used by ask_collection_question belongs to
\* the requested collection.
C3_ScopeIsolation ==
    \A a \in Askers :
        (InFlight(a) /\ ask[a].route = "collection") =>
            /\ \A i \in 1..Len(ask[a].results) :
                  ask[a].results[i].document_id \in DocumentsIn(ask[a].collection_id)
            /\ \A i \in 1..Len(ask[a].expanded) :
                  ask[a].expanded[i].document_id \in DocumentsIn(ask[a].collection_id)

\* a question in one collection got its seeds while a chunk of a document of
\* another collection is strictly nearer to it than every seed
C3_Witness ==
    \E a \in Askers :
        /\ InFlight(a) /\ ask[a].route = "collection"
        /\ ask[a].results # <<>> /\ ask[a].expanded # <<>>
        /\ \E c \in chunks :
              /\ \E d \in documents :
                    /\ d.id = c.document_id
                    /\ d.collection_id \notin {NoCollection, ask[a].collection_id}
              /\ \A i \in 1..Len(ask[a].results) :
                    l2_distance(c, get_embedding(ask[a].question))
                        < l2_distance(ask[a].results[i], get_embedding(ask[a].question))

StoredTurn(a) == {m \in chat_messages : m.request = a}

SuccessfulCommit(a) ==
    ask[a].pc = "commit" /\ ask'[a].pc = "done" /\ ask'[a].status = 200

\* no row of a cycle is stored before its commit, which comes after the answer;
\* a failed cycle has stored neither message, nor the session it made up
C4_State ==
    \A a \in Askers :
        /\ InFlight(a) => (StoredTurn(a) = {} /\ ask[a].answer \in Answers)
        /\ (ask[a].pc = "done" /\ ask[a].status # 200) =>
              /\ StoredTurn(a) = {}
              /\ ~\E x \in sessions : x.id = Uuid4(a)

\* every step of a cycle but its successful commit, its failure included, leaves
\* the stored sessions and messages exactly as they were
C4_Step ==
    \A a \in Askers :
        (ask'[a] # ask[a] /\ ~SuccessfulCommit(a)) =>
            (sessions' = sessions /\ chat_messages' = chat_messages)

\* C4: a question-answering cycle that fails at any stage (no corpus,
\* retrieval or generation failure, failed write of the session or of a
\* message) leaves the stored sessions and chat messages as they were before
\* it: no session of that cycle and neither message of the turn is persisted;
\* messages are written only after the answer was generated.
C4_FailedCycleLeavesNothing == []C4_State /\ [][C4_Step]_vars

\* a cycle failed at its commit, after it had inserted a session of its own and
\* its user message, while the turn of another cycle is stored
C4_Witness ==
    \E a \in Askers :
        /\ ask[a].pc = "done" /\ ask[a].error = "db" /\ ask[a].failed_at = "commit"
        /\ ask[a].request_session = NoSession
        /\ ask[a].session_id = Uuid4(a)
        /\ \E b \in Askers \ {a} : Cardinality(StoredTurn(b)) = 2

\* the cycle ended without a fault of its surroundings (model, database
\* connection, corpus)
RanToEnd(a) == ask[a].pc = "done" /\ ask[a].error \in {"none", "integrity"}

\* C5: two question-answering cycles for the same fresh session id leave
\* exactly one session with that id and lose no message: both turns, two user
\* and two assistant messages, are persisted, whatever the interleaving.
C5_NoLostTurn ==
    \A a, b \in Askers :
        (/\ a # b
         /\ RanToEnd(a) /\ RanToEnd(b)
         /\ ask[a].route = "ask" /\ ask[b].route = "ask"
         /\ ask[a].request_session # NoSession
         /\ ask[a].request_session = ask[b].request_session) =>
            /\ Cardinality({x \in sessions : x.id = ask[a].session_id}) = 1
            /\ \A c \in {a, b} :
                  {m.role : m \in StoredTurn(c)} = {"user", "assistant"}

\* C6: the successful commit of a question sent without a session id answers
\* with an id no session had, stores exactly one session more, the one of that
\* id, and get_session of that id then returns exactly two messages: the
\* question as user, then the answer as assistant.
C6_Step ==
    \A a \in Askers :
        (SuccessfulCommit(a) /\ ask[a].route = "ask"
            /\ ask[a].request_session = NoSession) =>
            /\ ask'[a].session_id = Uuid4(a)
            /\ ~\E x \in sessions : x.id = ask'[a].session_id
            /\ Cardinality({x \in sessions' : x.id = ask'[a].session_id}) = 1
            /\ Cardinality(sessions') = Cardinality(sessions) + 1
            /\ \A r \in get_session(Uuid4(a))' :
                  /\ r.status = 200
                  /\ r.messages = <<[role |-> "user", content |-> ask'[a].question],
                                    [role |-> "assistant", content |-> ask'[a].answer]>>

IsCompleteTurns(rows) ==
    /\ Len(rows) % 2 = 0
    /\ \A i \in 1..Len(rows) :
          i % 2 = 1 =>
              /\ rows[i].role = "user" /\ rows[i + 1].role = "assistant"
              /\ rows[i].request = rows[i + 1].request

\* every session read by created_at is a sequence of complete turns
C30_State ==
    \A x \in sessions : \A rows \in OrderedMessages(x.id) : IsCompleteTurns(rows)

\* no stored message is changed or removed
C30_Step == chat_messages \subseteq chat_messages'

\* C30: chat messages are append-only and, after any interleaving of
\* concurrent successful cycles on the same session, the conversation in
\* canonical (creation-time) order is a sequence of complete turns: each user
\* message is immediately followed by the assistant answer generated for it,
\* and no existing message is ever modified, removed or reordered by a later
\* cycle.
C30_CompleteTurnsInOrder == []C30_State /\ [][C30_Step]_vars

\* the append-only half alone
C30_AppendOnly == [][C30_Step]_vars

(***************************************************************************)
(* Claims about ingestion (checked under SpecIngest).                      *)
(***************************************************************************)
\* the chunk rows of document id are exactly one row per text, in order
HasExactlyChunks(id, chunk_texts, rows) ==
    /\ Cardinality({c \in rows : c.document_id = id}) = Len(chunk_texts)
    /\ \A k \in 1..Len(chunk_texts) :
          \E c \in rows : /\ c.document_id = id
                          /\ c.chunk_index = k - 1
                          /\ c.text = chunk_texts[k]

C7_State ==
    /\ \A d \in documents : ChunksOf(d.id) # {}
    /\ \A c \in chunks : c.document_id \in DocumentIds

C7_Step ==
    \A id \in 1..MaxDocs :
        /\ (id \notin DocumentIds /\ id \in DocumentIds') =>
              \E u \in Uploaders :
                  /\ up_tx[u].document_id = id
                  /\ HasExactlyChunks(id, up_tx[u].chunk_texts, chunks')
        /\ (id \in DocumentIds /\ id \in DocumentIds') =>
              ChunksOf(id)' = ChunksOf(id)
        /\ (id \notin DocumentIds') => ChunksOf(id)' = {}

\* C7: ingestion is all-or-nothing per file: a document row becomes visible
\* only together with every chunk row of its file, and whatever happens to the
\* request afterwards (a later file's failure, an abort) no committed state
\* holds a document with part of its chunks, a document without chunks or
\* chunks without their document.
C7_AllOrNothingPerFile == []C7_State /\ [][C7_Step]_vars

\* a file was flushed and then failed or was aborted after an earlier file of
\* the same request was committed, and nothing was deleted
C7_Witness ==
    /\ last_collection = 0
    /\ last_document = 2
    /\ Cardinality(documents) = 1
    /\ \E d \in documents : d.id = 1 /\ Cardinality(ChunksOf(d.id)) >= 2
    /\ \E u \in Uploaders : up_pc[u] \in {"file", "done", "idle"}

IsPartition(a, b, n) ==
    /\ Len(a) + Len(b) = n
    /\ Range(a) \cup Range(b) = 1..n

C8_State ==
    \A u \in Uploaders :
        /\ up_pc[u] \in {"file", "flushed"} =>
              IsPartition(uploaded_files[u], failed_files[u], up_i[u] - 1)
        /\ (up_pc[u] = "done" /\ up_n[u] > 0) =>
              /\ IsPartition(up_response[u].files_uploaded,
                             up_response[u].failed_files, up_n[u])
              /\ up_response[u].status \in {200, 400}
              /\ up_response[u].status = 200 <=> up_response[u].files_uploaded # <<>>
              /\ up_response[u].documents_indexed = Len(up_response[u].files_uploaded)

C8_Step ==
    \A u \in Uploaders :
        /\ (\E d \in documents' \ documents : d.id = up_tx[u].document_id)
              <=> (/\ up_pc[u] = "flushed"
                   /\ uploaded_files'[u] = Append(uploaded_files[u], up_i[u]))
        /\ (up_pc[u] \in {"file", "flushed"} /\ Len(failed_files'[u]) > Len(failed_files[u])) =>
              /\ documents' = documents
              /\ chunks' = chunks
              /\ failed_files'[u] = Append(failed_files[u], up_i[u])
              /\ uploaded_files'[u] = uploaded_files[u]
              /\ up_pc'[u] = "file"

C9_ContiguousChunkIndices ==
    \A d \in documents :
        LET rows == ChunksOf(d.id)
            n == Cardinality(rows)
        IN  /\ n >= 1
            /\ {c.chunk_index : c \in rows} = 0..(n - 1)

\* a document of three chunks is stored after a collection was deleted and a
\* document id was used up by a failed or deleted document
C9_Witness ==
    /\ last_collection >= 1
    /\ collections = {}
    /\ last_document > Cardinality(documents)
    /\ \E d \in documents : Cardinality(ChunksOf(d.id)) = 3

(***************************************************************************)
(* Claims about retrieval (checked under SpecRetrieve).                    *)
(***************************************************************************)
\* the indices of document_id that exist within [center - window, center + window]
WindowIndices(document_id, center_index, window) ==
    {i \in (center_index - window)..(center_index + window) :
        \E c \in chunks : c.document_id = document_id /\ c.chunk_index = i}

TextAt(document_id, i) ==
    (CHOOSE c \in chunks : c.document_id = document_id /\ c.chunk_index = i).text

\* texts is the texts of the chunks of document_id at the indices idx, by
\* strictly ascending index
IsAscendingTexts(texts, document_id, idx) ==
    /\ Len(texts) = Cardinality(idx)
    /\ \A i \in idx :
          texts[Cardinality({j \in idx : j < i}) + 1] = TextAt(document_id, i)

\* C10: expand(document_id, center_index, window), from the database and from
\* the in-memory metadata, returns exactly the texts of the chunks of that
\* document whose index lies in [center_index - window, center_index + window]
\* and exists, by strictly ascending index, each index once; indices outside the
\* document are absent and no chunk of another document is included.
C10_ExpansionWindow ==
    probe.op = "expand" =>
        LET idx == WindowIndices(probe.document_id, probe.center_index, probe.window)
        IN  /\ IsAscendingTexts(probe.texts, probe.document_id, idx)
            /\ IsAscendingTexts(probe.texts_mem, probe.document_id, idx)

\* the window [-1, 1] around the first chunk of a document of three chunks is
\* cut to indices 0 and 1 while another document holds chunks at those indices
C10_Witness ==
    /\ probe.op = "expand"
    /\ probe.center_index = 0 /\ probe.window = 1
    /\ Cardinality(ChunksOf(probe.document_id)) = 3
    /\ Len(probe.texts) = 2
    /\ \E d \in documents : d.id # probe.document_id /\ Cardinality(ChunksOf(d.id)) >= 2

(***************************************************************************)
(* Claims about the search (checked under SpecRetrieve).                   *)
(***************************************************************************)
\* the chunks a search of the collection, or of everything, ranges over
InScope(collection_id) ==
    {c \in chunks :
        collection_id = NoCollection
            \/ \E d \in documents : d.id = c.document_id /\ d.collection_id = collection_id}

\* C15: similarity_search_chunks_pgvector returns exactly min(k, number of
\* chunks in the requested scope) results, by non-decreasing L2 distance to the
\* query vector; a scope without chunks gives the empty sequence.
C15_SearchLengthAndOrder ==
    probe.op = "search" =>
        LET n == Cardinality(InScope(probe.collection_id))
            q == get_embedding(probe.question)
        IN  /\ Len(probe.rows) = IF probe.k < n THEN probe.k ELSE n
            /\ \A i \in 1..Len(probe.rows) : probe.rows[i] \in InScope(probe.collection_id)
            /\ \A i, j \in 1..Len(probe.rows) :
                  i < j => l2_distance(probe.rows[i], q) <= l2_distance(probe.rows[j], q)

\* a search with k = 2 in a collection of one chunk returns that chunk alone,
\* while the store holds other chunks
C15_Witness ==
    /\ probe.op = "search"
    /\ probe.k = 2
    /\ probe.collection_id # NoCollection
    /\ Len(probe.rows) = 1
    /\ Cardinality(chunks) > 2

\* chunk c was inserted before chunk d: documents are inserted one after the
\* other, the chunks of a document by ascending index (upload.py:129-152)
InsertedBefore(c, d) ==
    \/ c.document_id < d.document_id
    \/ c.document_id = d.document_id /\ c.chunk_index < d.chunk_index

\* C16: chunks at equal distance from the query are ranked by insertion order,
\* earliest first, so the result is determined by the stored chunks and the
\* query.
C16_TiesByInsertionOrder ==
    probe.op = "search" =>
        LET q == get_embedding(probe.question)
        IN  /\ \A i, j \in 1..Len(probe.rows) :
                  (i < j /\ l2_distance(probe.rows[i], q) = l2_distance(probe.rows[j], q))
                      => InsertedBefore(probe.rows[i], probe.rows[j])
            /\ \A c \in InScope(probe.collection_id) \ Range(probe.rows) :
                  \A i \in 1..Len(probe.rows) :
                      l2_distance(probe.rows[i], q) = l2_distance(c, q)
                          => InsertedBefore(probe.rows[i], c)

(***************************************************************************)
(* Claims about rejected questions (checked under SpecAsk).                *)
(***************************************************************************)
\* the scope request a is asked on holds no chunk
NoChunksInScope(a) ==
    IF ask'[a].route = "ask" THEN chunks = {}
    ELSE InScope(ask'[a].collection_id) = {}

\* request a is received
C17_Step(a) ==
    (ask[a].pc = "idle" /\ ask'[a].pc # "idle" /\ NoChunksInScope(a))
        => /\ ask'[a].pc = "done"
           /\ ask'[a].status = 503
           /\ ask'[a].error = "no_corpus"
           /\ ask'[a].answer = ""
           /\ UNCHANGED <<db_vars, clock>>

\* C17: a question asked while the requested scope (the whole store for
\* ask_question, the collection for ask_collection_question) holds no chunk is
\* answered 503, not 404, before the search and the generation, and nothing
\* is stored.
C17_NotReadyWhenScopeEmpty == [][\A a \in Askers : C17_Step(a)]_vars

\* a collection without chunks was asked while the store holds chunks
C17_Witness ==
    \E a \in Askers :
        /\ ask[a].route = "collection"
        /\ ask[a].status = 503
        /\ chunks # {}

\* the session ids a client may send
SentSessionIds == {[kind |-> "client", n |-> 1, of |-> ""]} \cup {Uuid4(a) : a \in Askers}

\* the stored session ids
SessionIds == {x.id : x \in sessions}

\* request a of ask_question names a session that is not stored
NamesUnknownSession(a) ==
    /\ ask[a].route = "ask"
    /\ ask[a].request_session # NoSession
    /\ ask[a].request_session \notin SessionIds

\* while the session a request names is not stored, no step stores it or a
\* message of the request
C18_Step ==
    \A a \in Askers :
        NamesUnknownSession(a) =>
            /\ ask[a].request_session \notin SessionIds'
            /\ StoredTurn(a)' = {}

\* C18: a session id that is not stored is answered as not-found: get_session
\* answers 404, and a question-answering cycle given such a session_id stores
\* neither a session nor a message.
C18_UnknownSessionIsNotFound ==
    /\ [](\A id \in SentSessionIds \ SessionIds :
              \A r \in get_session(id) : r.status = 404)
    /\ [][C18_Step]_vars

(***************************************************************************)
(* Claims about access to the collections (checked under SpecAccess).      *)
(***************************************************************************)
\* collection c is stored and private
IsPrivate(c) == c \in collections /\ ~collection_access[c].is_public

\* a request for a private collection enters get_collection_with_access
C19_AccessStep ==
    (probe.op = "none" /\ probe'.op = "access" /\ IsPrivate(probe'.collection_id)) =>
        LET authorization == probe'.authorization
            issued == authorization.scheme = "Bearer" /\ authorization.token \in tokens
            unexpired == utcnow < authorization.token.exp
            same == authorization.token.collection_id = probe'.collection_id
        IN  /\ probe'.status = 200 <=> (issued /\ unexpired /\ same)
            /\ ~(issued /\ unexpired) => probe'.status = 401
            /\ (issued /\ unexpired /\ ~same) => probe'.status = 403

\* a token is signed
C19_IssueStep ==
    /\ (probe.op = "none" /\ probe'.op = "unlock" /\ probe'.status = 200
            /\ IsPrivate(probe'.collection_id)) =>
          (probe'.code \in Codes
              /\ collection_access[probe'.collection_id].code = hash_code(probe'.code))
    /\ tokens' # tokens =>
          /\ probe.op = "none" /\ probe'.op = "unlock" /\ probe'.status = 200
          /\ tokens' = tokens \cup {probe'.access_token}
          /\ probe'.access_token.collection_id = probe'.collection_id

\* C19: get_collection_with_access hands over a private collection only to a
\* request with an unexpired token issued for that collection: no token, an
\* invalid or an expired one gives 401, a valid token of another collection
\* 403; and unlock_collection issues a token for a private collection only
\* when the request carries the collection's code.
C19_PrivateNeedsOwnToken == [][C19_AccessStep /\ C19_IssueStep]_vars

\* a private collection refuses (403) the unexpired token that unlocked the
\* other private collection, whose own earlier token has expired
C19_Witness ==
    /\ probe.op = "access"
    /\ probe.status = 403
    /\ IsPrivate(probe.collection_id)
    /\ IsPrivate(probe.authorization.token.collection_id)
    /\ \E t \in tokens : t.collection_id = probe.authorization.token.collection_id
                            /\ t.exp <= utcnow

(***************************************************************************)
(* Claims about private collections (checked under SpecUnscopedAsk).       *)
(***************************************************************************)
\* the chunk rows of the documents of private collections
PrivateChunks ==
    {c \in chunks : \E d \in documents :
        d.id = c.document_id /\ IsPrivate(d.collection_id)}

\* C29: no response to a request that lacks a valid access token for a
\* private collection contains the text of a chunk belonging to that private
\* collection; in particular the results and context_used of the unscoped
\* ask_question never include chunks of a private collection.
C29_NoPrivateChunkInResponse ==
    [][\A a \in Askers :
          (ask[a].route = "ask" /\ ask[a].pc = "commit" /\ ask'[a].status = 200) =>
              LET context_used ==
                      KeepParts(DictFromKeys(TextsOf(ask[a].expanded)), 1, <<>>, 0,
                                MAX_CONTEXT_CHARS)
              IN  /\ \A i \in 1..Len(ask[a].results) :
                        ask[a].results[i] \notin PrivateChunks
                  /\ \A i \in 1..Len(ask[a].expanded) :
                        ask[a].expanded[i] \in PrivateChunks =>
                            ask[a].expanded[i].text \notin Range(context_used)]_vars

(***************************************************************************)
(* Claims about ownership (checked under SpecLifecycle).                   *)
(***************************************************************************)
\* every row's owner is stored
C20_State ==
    /\ \A c \in chunks : c.document_id \in DocumentIds
    /\ \A m \in chat_messages : m.session_id \in SessionIds
    /\ \A d \in documents : d.collection_id \in collections \cup {NoCollection}
    /\ \A x \in sessions : x.collection_id \in collections \cup {NoCollection}

\* the documents and the collections that were deleted; ids are not reused
DeletedDocuments == (1..last_document) \ DocumentIds

DeletedCollections == (1..last_collection) \ collections

\* nothing of a deleted document or collection is left
C20_Deleted ==
    /\ \A id \in DeletedDocuments : ChunksOf(id) = {}
    /\ \A collection_id \in DeletedCollections :
          /\ DocumentsIn(collection_id) = {}
          /\ ~\E x \in sessions : x.collection_id = collection_id
          /\ ~\E m \in chat_messages :
                m.session_id = CollectionSession(collection_id).id

\* no search and no expansion gives a chunk of a deleted document
C20_Retrieval ==
    /\ \A question \in Questions, k \in 1..MaxK,
          collection_id \in {NoCollection} \cup StoreCollections :
          \A rows \in similarity_search_chunks_pgvector(question, k, collection_id) :
              \A i \in 1..Len(rows) : rows[i].document_id \notin DeletedDocuments
    /\ \A id \in DeletedDocuments, center_index \in 0..MaxChunks :
          get_context_chunks_from_db(id, center_index, 2) = <<>>

\* a request is received: what it retrieves is stored
C20_Step ==
    \A a \in Askers :
        (ask[a].pc = "idle" /\ ask'[a].pc # "idle") =>
            /\ Range(ask'[a].results) \subseteq chunks
            /\ Range(ask'[a].expanded) \subseteq chunks
            /\ \A c \in Range(ask'[a].results) \cup Range(ask'[a].expanded) :
                  c.document_id \notin DeletedDocuments

RemovedDocuments == {d.id : d \in documents \ documents'}

\* the removed documents are the requested ones of the collection, and
\* nothing else changes but their chunks
C26_Frame(collection_id, document_ids) ==
    /\ RemovedDocuments = Range(document_ids) \cap DocumentsIn(collection_id)
    /\ documents' = {d \in documents : d.id \notin RemovedDocuments}
    /\ chunks' = {c \in chunks : c.document_id \notin RemovedDocuments}
    /\ UNCHANGED <<collections, sessions, chat_messages>>

\* deleted_ids names every removed document once and deleted_count is their
\* number
C26_Response(collection_id, document_ids) ==
    LET response == DeleteDocumentsResponse(collection_id, document_ids)
    IN  /\ Range(response.deleted_ids) = RemovedDocuments
        /\ Len(response.deleted_ids) = Cardinality(RemovedDocuments)
        /\ response.deleted_count = Cardinality(RemovedDocuments)

\* C26: delete_collection_documents deletes exactly the requested documents
\* that belong to the authorized collection; requested ids of other
\* collections or of missing documents are ignored, every document and chunk
\* not deleted is left unchanged, and deleted_ids / deleted_count list
\* exactly the documents removed.
C26_DeletesRequestedOfCollection ==
    [][\A collection_id \in StoreCollections, document_ids \in DocumentIdLists :
          delete_collection_documents(collection_id, document_ids) =>
              /\ C26_Frame(collection_id, document_ids)
              /\ C26_Response(collection_id, document_ids)]_vars

\* the same for the payloads that name no document twice
C26_DistinctIds ==
    [][\A collection_id \in StoreCollections, document_ids \in DocumentIdLists :
          (/\ delete_collection_documents(collection_id, document_ids)
           /\ Cardinality(Range(document_ids)) = Len(document_ids)) =>
              /\ C26_Frame(collection_id, document_ids)
              /\ C26_Response(collection_id, document_ids)]_vars

(***************************************************************************)
(* Claims about the chat of a collection (checked under                    *)
(* SpecCollectionChat).                                                    *)
(***************************************************************************)
\* the sessions associated with a collection
SessionsOf(collection_id) == {x \in sessions : x.collection_id = collection_id}

\* every collection has one session, and every response of
\* get_collection_messages lists rows of that session only
C27_State ==
    \A collection_id \in collections :
        /\ Cardinality(SessionsOf(collection_id)) = 1
        /\ \A page \in Pages, page_size \in PageSizes :
              \A response \in get_collection_messages(collection_id, page, page_size) :
                  /\ response.status = 200
                  /\ \A i \in 1..Len(response.items) :
                        /\ response.items[i] \in chat_messages
                        /\ \E x \in SessionsOf(collection_id) :
                              response.items[i].session_id = x.id

\* the session of a collection comes with the collection; a request of
\* ask_collection_question leaves the sessions alone and, when it succeeds,
\* adds the user and the assistant message to the collection's session
C27_Step ==
    /\ \A collection_id \in collections' \ collections :
          /\ SessionsOf(collection_id) = {}
          /\ CollectionSession(collection_id) \in sessions'
    /\ \A a \in Askers :
          (ask[a].route = "collection" /\ ask'[a] # ask[a]) =>
              /\ sessions' = sessions
              /\ (ask[a].pc = "commit" /\ ask'[a].status = 200) =>
                    \E user, assistant \in chat_messages' \ chat_messages :
                        /\ chat_messages' = chat_messages \cup {user, assistant}
                        /\ user.role = "user" /\ assistant.role = "assistant"
                        /\ \A m \in {user, assistant} :
                              \E x \in SessionsOf(ask[a].collection_id) :
                                  m.session_id = x.id

C28_IncrementalAdd ==
    [][(probe.op = "none" /\ probe'.op \in {"init_vectorstore", "add_documents"}) =>
          /\ probe'.raised = "none"
          /\ Range(probe'.documents) \subseteq Range(vectorstore'.docs)
          /\ Range(vectorstore.docs) \subseteq Range(vectorstore'.docs)]_vars

\* the same of add_documents on a store that init_vectorstore constructed
C28_AddAfterInit ==
    [][(probe.op = "none" /\ probe'.op = "add_documents" /\ is_initialized) =>
          /\ probe'.raised = "none"
          /\ vectorstore'.docs = vectorstore.docs \o probe'.documents]_vars

\* init_vectorstore on a store that holds documents leaves the new ones only
C28_InitReplaces ==
    [][(probe.op = "none" /\ probe'.op = "init_vectorstore") =>
          vectorstore'.docs = probe'.documents]_vars

(***************************************************************************)
(* Claims about concurrent uploads (checked under SpecConcurrent).         *)
(***************************************************************************)
\* the chunk indices of document id are 0..n-1 for some n >= 1
IsWholeDocument(id, rows) ==
    LET own == {c \in rows : c.document_id = id}
    IN  /\ own # {}
        /\ {c.chunk_index : c \in own} = 0..(Cardinality(own) - 1)

\* what every reader sees: whole documents, and nothing of a file in flight
C21_State ==
    /\ \A d \in documents : IsWholeDocument(d.id, chunks)
    /\ \A c \in chunks : c.document_id \in DocumentIds
    /\ \A u \in ConcurrentUploaders :
          up_pc[u] = "flushed" =>
              /\ up_tx[u].document_id \notin DocumentIds
              /\ ChunksOf(up_tx[u].document_id) = {}

\* no step loses or changes a stored row, a reported file is stored whole, and
\* a search returns rows of whole stored documents
C21_Step ==
    /\ documents \subseteq documents'
    /\ chunks \subseteq chunks'
    /\ \A c \in chunks' \ chunks : c.document_id \notin DocumentIds
    /\ \A u \in ConcurrentUploaders :
          Len(uploaded_files'[u]) > Len(uploaded_files[u]) =>
              /\ up_tx[u].document_id \in DocumentIds'
              /\ HasExactlyChunks(up_tx[u].document_id, up_tx[u].chunk_texts, chunks')
    /\ (probe.op = "none" /\ probe'.op = "search") =>
          \A i \in 1..Len(probe'.rows) :
              /\ probe'.rows[i] \in chunks
              /\ IsWholeDocument(probe'.rows[i].document_id, chunks)
              /\ \A u \in ConcurrentUploaders :
                    up_tx[u].document_id # probe'.rows[i].document_id

\* C21: whatever the interleaving of concurrent uploads with each other and
\* with searches, no write is lost or damaged: a file reported in
\* files_uploaded has its document and all its chunks stored, they stay
\* stored, and no search sees a document with part of its chunks.
C21_NoLostWrite == []C21_State /\ [][C21_Step]_vars

\* one request stored its files and answered, and a search ran while the
\* other had a file flushed and not committed
C21_Witness ==
    /\ probe.op = "search"
    /\ probe.rows # <<>>
    /\ \E u \in ConcurrentUploaders, v \in ConcurrentUploaders :
          /\ u # v
          /\ up_pc[u] = "done" /\ up_response[u].status = 200
          /\ up_pc[v] = "flushed"

(***************************************************************************)
(* Claims about the chat history (checked under SpecHistory).              *)
(***************************************************************************)
\* the rows of the session whose history is loaded
SessionRows == {m \in chat_messages : m.session_id = HistorySession}

\* rows are the earliest n rows of the session, oldest first
IsEarliest(rows, n) ==
    /\ Len(rows) = Min(n, Cardinality(SessionRows))
    /\ \A i \in 1..Len(rows) : rows[i] \in SessionRows
    /\ \A i, j \in 1..Len(rows) : i < j => rows[i].created_at < rows[j].created_at
    /\ \A m \in SessionRows \ Range(rows) :
          \A i \in 1..Len(rows) : rows[i].created_at < m.created_at

\* part is the last n elements of whole
IsLast(part, whole, n) ==
    /\ Len(part) = Min(n, Len(whole))
    /\ \A i \in 1..Len(part) : part[i] = whole[Len(whole) - Len(part) + i]

\* the loaded rows are the earliest MAX_HISTORY_LOAD of the session
C24_Loaded ==
    probe.op = "history" =>
        /\ IsEarliest(probe.rows, probe.MAX_HISTORY_LOAD)
        /\ (probe.request_history = <<>> /\ probe.has_session_id) =>
              probe.history = RoleContent(probe.rows)

\* C24: the history loaded from storage is the earliest MAX_HISTORY_LOAD
\* messages of the session in ascending creation order, and the model gets the
\* system prompt, then only the last MAX_HISTORY_MESSAGES messages of the
\* loaded or supplied history in the same order, then the question.
C24_HistoryWindows ==
    probe.op = "history" =>
        /\ C24_Loaded
        /\ LET sent == probe.messages
               n == Len(sent)
           IN  /\ n >= 2
               /\ sent[1].role = "system"
               /\ sent[n] = [role |-> "user", content |-> probe.question]
               /\ IsLast(SubSeq(sent, 2, n - 1), probe.history,
                         probe.MAX_HISTORY_MESSAGES)

(***************************************************************************)
(* Claims about chunking (checked under SpecChunk).                        *)
(***************************************************************************)
\* C11: chunk_text(text, size, overlap) fails with the configuration error
\* for every text, empty and blank ones included, whenever overlap >= size,
\* and whenever overlap < size it returns a list of chunks without raising.
C11_RaisesIffMisconfigured ==
    probe.op = "chunk_text" =>
        /\ probe.overlap >= probe.chunk_size => probe.result.raised = "ValueError"
        /\ probe.overlap < probe.chunk_size => probe.result.raised = "none"

\* ceil(a / b) for b > 0
CeilDiv(a, b) == -((-a) \div b)

\* the chunks are the n windows of chunk_size characters of the text that start
\* chunk_size - chunk_overlap apart, the last one cut at the end of the text
IsSlidingWindows(result, text, n, chunk_size, chunk_overlap) ==
    /\ Len(result) = n
    /\ \A k \in 1..Len(result) :
          LET start == (k - 1) * (chunk_size - chunk_overlap)
              end == IF start + chunk_size < Len(text)
                     THEN start + chunk_size ELSE Len(text)
          IN  result[k] = SubSeq(text, start + 1, end)

\* the claim as stated: a text of length L without separators gives
\* ceil((L - o) / (s - o)) chunks of at most s units starting s - o apart
C12_ChunkCountFormula ==
    (/\ probe.op = "chunk_text" /\ probe.result.raised = "none"
     /\ probe.text # <<>>
     /\ \A i \in 1..Len(probe.text) : probe.text[i] \notin Whitespace) =>
        IsSlidingWindows(probe.result.chunks, probe.text,
                         CeilDiv(Len(probe.text) - probe.overlap,
                                 probe.chunk_size - probe.overlap),
                         probe.chunk_size, probe.overlap)

\* C12: for a text of L >= 1 characters, none of them a separator or white
\* space, chunk_text with size s and overlap o < s produces
\* max(1, ceil((L - o) / (s - o))) chunks, each of at most s characters, chunk
\* k starting at offset k * (s - o), so that consecutive chunks share exactly
\* o characters and no character is lost.
C12_ChunkCountOfSolidText ==
    (/\ probe.op = "chunk_text" /\ probe.result.raised = "none"
     /\ probe.text # <<>>
     /\ \A i \in 1..Len(probe.text) : probe.text[i] \notin Whitespace) =>
        LET n == CeilDiv(Len(probe.text) - probe.overlap,
                         probe.chunk_size - probe.overlap)
        IN  IsSlidingWindows(probe.result.chunks, probe.text,
                             IF n < 1 THEN 1 ELSE n,
                             probe.chunk_size, probe.overlap)

\* five characters, size 3, overlap 2: three chunks at offsets 0, 1, 2
C12_Witness ==
    /\ probe.op = "chunk_text" /\ probe.result.raised = "none"
    /\ \A i \in 1..Len(probe.text) : probe.text[i] \notin Whitespace
    /\ Len(probe.text) = 5 /\ probe.chunk_size = 3 /\ probe.overlap = 2
    /\ Len(probe.result.chunks) = 3

(***************************************************************************)
(* Claims about text normalisation (checked under SpecNormalize).          *)
(***************************************************************************)
\* C13: normalize_text_for_rag is idempotent, normalize(normalize(x)) =
\* normalize(x) for every text x, and an empty or white-space-only text
\* gives the empty string.
C13_NormalizeIdempotent ==
    probe.op = "normalize" =>
        /\ probe.twice = probe.once
        /\ (\A i \in 1..Len(probe.text) : probe.text[i] \in Space) => probe.once = <<>>

\* two lines that form two paragraphs: the text changes and its result is
\* its own normal form
C13_Witness ==
    /\ probe.op = "normalize"
    /\ probe.text = <<"a", ".", "\n", "A">>
    /\ probe.once = <<"a", ".", "\n", "\n", "A">>
    /\ probe.twice = probe.once

\* the number of paragraph breaks (two newlines in a row) of a text
BreakCount(out) ==
    Cardinality({i \in 1..(Len(out) - 1) : out[i] = "\n" /\ out[i + 1] = "\n"})

\* the adjacent pairs of non-blank lines where a paragraph ends: the line
\* ends in . ! ? and the next one starts with an uppercase letter
ParagraphEnds(lines) ==
    {i \in 1..(Len(lines) - 1) : EndsSentence(lines[i]) /\ StartsUpper(lines[i + 1])}

====
